---------------------------- MODULE Spec2Model ----------------------------
(***************************************************************************)
(* A model of the F1_Insights core and its pages: the Monte Carlo strategy *)
(* simulator (simulation/strategy.py), the row validation of the canonical *)
(* schemas (data/schemas.py), normalization and the two loaders            *)
(* (data/normalization.py, data/ingestion.py), binning and driver          *)
(* comparison (analysis/driver_compare.py), the fuel and pace model        *)
(* (analysis/tire_model.py), lap_delta (utils/lap_delta.py) and the upload *)
(* and strategy pages.                                                     *)
(*                                                                         *)
(* Times are integers in ticks of 0.1 ms (10000 ticks = 1 s), so that the  *)
(* rounding to 3 decimals done on return is a real conversion.  A rounded  *)
(* race time is an integer number of milliseconds.                         *)
(***************************************************************************)
EXTENDS Integers, Sequences, FiniteSets, TLC

(* ------------------------------ bounds -------------------------------- *)
MaxRuns  == 3      \* n_runs ranges over 0..MaxRuns
MaxLaps  == 3      \* laps ranges over 0..MaxLaps
MaxCalls == 2      \* calls of run_monte_carlo_strategy made by one process

(* --------------------------- argument sets ----------------------------- *)
NRunsSet    == 0..MaxRuns
LapsSet     == 0..MaxLaps
PitLapSet   == (-1)..(MaxLaps + 2)      \* "any integer": below 1, inside, above laps
BaseLapSet  == {900000}                 \* 90.0 s
PitLossSet  == {215000}                 \* 21.5 s
DegSet      == {0, 600}                 \* 0 s and 0.06 s per lap of tire age
NoiseStdSet == {0, 3500}                \* 0 s and the default 0.35 s

ArgsSet ==
  [n_runs : NRunsSet, base_lap_s : BaseLapSet, laps : LapsSet,
   pit_lap : PitLapSet, pit_loss_s : PitLossSet, deg_per_lap_s : DegSet,
   noise_std_s : NoiseStdSet]

NoArgs ==
  [n_runs |-> 0, base_lap_s |-> 0, laps |-> 0, pit_lap |-> 0,
   pit_loss_s |-> 0, deg_per_lap_s |-> 0, noise_std_s |-> 0]

NoSummary == [n |-> 0, sum_ms |-> 0, p10x10 |-> 0, p50x10 |-> 0, p90x10 |-> 0]

VARIABLES
  pc,         \* position of the simulator process
  args,       \* arguments of the call in progress (or of the last call)
  run_id,     \* outer loop variable
  lap,        \* inner loop variable
  total,      \* cumulative time of the current run, in ticks
  tire_age,   \* laps since the last pit stop
  rows,       \* rows appended so far: <<[run_id, race_time_s (ticks)]>>
  rng,        \* number of draws consumed from the generator since it was seeded
  frame,      \* the returned table: race_time_s rounded, in ms
  summary,    \* result of summarize_strategy on frame
  calls,      \* calls started so far
  prev_args,  \* arguments of the previous completed call
  prev_frame, \* table returned by the previous completed call
  ages,       \* history: tire_age used by the degradation term, per lap of this run
  pits,       \* history: pit events fired in this run
  pit_time,   \* history: pit loss added in this run, in ticks
  draws,      \* history: number of the draw consumed, per lap of this run
  lap_steps   \* history: lap transitions executed in this call

simVars ==
  <<pc, args, run_id, lap, total, tire_age, rows, rng, frame, summary,
    calls, prev_args, prev_frame, ages, pits, pit_time, draws, lap_steps>>

VARIABLES
  vpc,          \* position of _validate_rows: "loop", "done" ("raised": an escaped exception)
  model,        \* the record model rows are validated against
  records,      \* the input rows, each a mapping from field name to cell value
  idx,          \* enumerate index of the next row
  valid_rows,
  invalid_rows,
  errors,       \* messages appended so far
  result,       \* the SchemaValidationResult returned
  verdicts      \* history: per processed row, whether it was counted valid

valVars ==
  <<vpc, model, records, idx, valid_rows, invalid_rows, errors, result, verdicts>>

VARIABLES
  ppc,          \* position of the ingestion pipeline (load_uploaded_table, load_open_historical_laps)
  kind,         \* "user": normalize_user_telemetry, "open": normalize_open_historical
  raw,          \* the raw table handed to normalization
  session_id,   \* the caller-supplied session id
  normalized,   \* the table normalization returned
  uploaded,     \* the name of the uploaded file, NoFile when nothing is uploaded
  attested,     \* the attestation checkbox of the upload page
  response,     \* what the OpenF1 request comes to
  steps         \* the steps of the loader entered so far, in order

pipeVars == <<ppc, kind, raw, session_id, normalized, uploaded, attested, response, steps>>

VARIABLES
  bpc,          \* position of the comparison: "idle", "ready", "binned", "compared"
  bdf,          \* the table handed to telemetry_bin_average / compare_two_drivers
  bin_size_m,   \* bin size, in tenths of a metre
  out_bins,     \* out["bin_index"], per input row
  binned,       \* the grouped table
  driver_a,
  driver_b,
  merged        \* the result of compare_two_drivers

binVars == <<bpc, bdf, bin_size_m, out_bins, binned, driver_a, driver_b, merged>>

VARIABLES
  fpc,          \* position of the fuel model: "idle", "ready", "done"
  total_laps,   \* estimate_fuel_mass(total_laps)
  lap_number,   \* one entry of the lap_number series
  fuel_mass,    \* the entry of the result for lap_number
  fuel_prev     \* the entry of the result for lap_number - 1 (lap_number >= 1)

fuelVars == <<fpc, total_laps, lap_number, fuel_mass, fuel_prev>>

VARIABLES
  dpc,          \* position of lap_delta: "idle", "scan", "returned", "index_error"
  ref_dist,     \* the reference lap's distances (None or a number, in tenths)
  ref_cum,      \* the reference lap's cumulative times
  cmp_dist,     \* the comparison lap's distances
  cmp_cum,      \* the comparison lap's cumulative times
  ld_i,         \* i of the for loop: reference samples done
  ld_j,         \* j, the comparison pointer
  ld_x,         \* x
  ld_y,         \* y
  ld_js         \* history: j at each append

deltaVars ==
  <<dpc, ref_dist, ref_cum, cmp_dist, cmp_cum, ld_i, ld_j, ld_x, ld_y, ld_js>>

VARIABLES
  pace_pc,      \* position of fuel_corrected_pace: "idle", "start", "returned" or the exception raised
  laps_df,      \* the caller's table passed as laps_df
  modeled       \* the table fuel_corrected_pace returned

paceVars == <<pace_pc, laps_df, modeled>>

VARIABLES
  sliders       \* n_runs, laps and pit_lap of the Strategy Simulator page when the button was pressed

pageVars == <<sliders>>

vars == <<simVars, valVars, pipeVars, binVars, fuelVars, deltaVars, paceVars, pageVars>>

(* What each component leaves alone. *)
notSim  == <<valVars, pipeVars, binVars, fuelVars, deltaVars, paceVars, pageVars>>
notVal  == <<simVars, pipeVars, binVars, fuelVars, deltaVars, paceVars, pageVars>>
notPipe == <<simVars, binVars, fuelVars, deltaVars, paceVars, pageVars>>
notBin  == <<simVars, valVars, pipeVars, fuelVars, deltaVars, paceVars, pageVars>>
notFuel == <<simVars, valVars, pipeVars, binVars, deltaVars, paceVars, pageVars>>
notDelta == <<simVars, valVars, pipeVars, binVars, fuelVars, paceVars, pageVars>>
notPace == <<simVars, valVars, pipeVars, binVars, fuelVars, deltaVars, pageVars>>

(* ------------------------ the noise generator -------------------------- *)

(* Variant: one generator shared by all calls, never re-seeded.            *)
SharedRng(old) == old

(* rng = np.random.default_rng(42): a fresh generator, at the start of the *)
(* stream, whatever generator an earlier call left behind.                 *)
default_rng(old) == 0

(* The i-th standard normal draw of the seed-42 stream, in hundredths.     *)
(* The stream is a fixed function of the seed; its values stand for the    *)
(* generator's.                                                            *)
Normal(i) == ((i * i * 37 + i * 11) % 401) - 200

(* rng.normal(0, noise_std_s) as draw number i: scale * z.                 *)
NormalDraw(scale, i) == (scale * Normal(i)) \div 100

(* ----------------------------- rounding -------------------------------- *)

(* Series.round(3): ticks to milliseconds, halves to the even neighbour.   *)
Round3(t) ==
  LET q == t \div 10
      r == t % 10
  IN  IF r < 5 THEN q
      ELSE IF r > 5 THEN q + 1
      ELSE IF q % 2 = 0 THEN q ELSE q + 1

(* ---------------------- run_monte_carlo_strategy ----------------------- *)

(* Variant: range(1, laps), which leaves the last lap out.                  *)
LastLapExclusive(a) == a.laps - 1

(* range(1, laps + 1): the last lap index of the inner loop.               *)
LastLap(a) == a.laps

(* Variant: a pit lap beyond the race is clamped to the last lap.           *)
PitDueClamped(l, a) == l = (IF a.pit_lap > a.laps THEN a.laps ELSE a.pit_lap)

(* if lap == pit_lap                                                       *)
PitDue(l, a) == l = a.pit_lap

(* The caller: a first call with any arguments, a later call with the same *)
(* arguments or with another run count.                                    *)
Call ==
  /\ pc \in {"idle", "returned", "summarized", "raised"}
  /\ calls < MaxCalls
  /\ \E a \in ArgsSet :
       /\ calls > 0 => [a EXCEPT !.n_runs = 0] = [args EXCEPT !.n_runs = 0]
       /\ args' = a
  /\ prev_args' = args
  /\ prev_frame' = frame
  /\ calls' = calls + 1
  /\ rows' = <<>>
  /\ rng' = default_rng(rng)
  /\ run_id' = 0
  /\ lap_steps' = 0
  /\ frame' = <<>>
  /\ summary' = NoSummary
  /\ pc' = "outer"
  /\ UNCHANGED <<lap, total, tire_age, ages, pits, pit_time, draws>>
  /\ UNCHANGED notSim

(* Variant: the generator is re-seeded at the start of every run.          *)
BeginRunReseed ==
  /\ pc = "outer"
  /\ run_id < args.n_runs
  /\ total' = 0
  /\ tire_age' = 0
  /\ lap' = 1
  /\ ages' = <<>>
  /\ draws' = <<>>
  /\ pits' = 0
  /\ pit_time' = 0
  /\ rng' = 0
  /\ pc' = "inner"
  /\ UNCHANGED <<args, run_id, rows, frame, summary, calls,
                 prev_args, prev_frame, lap_steps>>
  /\ UNCHANGED notSim

(* for run_id in range(n_runs): total = 0.0; tire_age = 0                  *)
BeginRun ==
  /\ pc = "outer"
  /\ run_id < args.n_runs
  /\ total' = 0
  /\ tire_age' = 0
  /\ lap' = 1
  /\ ages' = <<>>
  /\ draws' = <<>>
  /\ pits' = 0
  /\ pit_time' = 0
  /\ pc' = "inner"
  /\ UNCHANGED <<args, run_id, rows, rng, frame, summary, calls,
                 prev_args, prev_frame, lap_steps>>
  /\ UNCHANGED notSim

(* Variant: the pit stop adds its loss but keeps the tire age.             *)
PitCheckNoReset ==
  /\ pc = "inner"
  /\ lap <= LastLap(args)
  /\ IF PitDue(lap, args)
       THEN /\ total' = total + args.pit_loss_s
            /\ tire_age' = tire_age
            /\ pits' = pits + 1
            /\ pit_time' = pit_time + args.pit_loss_s
       ELSE UNCHANGED <<total, tire_age, pits, pit_time>>
  /\ pc' = "laptime"
  /\ UNCHANGED <<args, run_id, lap, rows, rng, frame, summary, calls,
                 prev_args, prev_frame, ages, draws, lap_steps>>
  /\ UNCHANGED notSim

(* for lap in range(1, laps + 1): if lap == pit_lap: total += pit_loss_s;  *)
(* tire_age = 0                                                            *)
PitCheck ==
  /\ pc = "inner"
  /\ lap <= LastLap(args)
  /\ IF PitDue(lap, args)
       THEN /\ total' = total + args.pit_loss_s
            /\ tire_age' = 0
            /\ pits' = pits + 1
            /\ pit_time' = pit_time + args.pit_loss_s
       ELSE UNCHANGED <<total, tire_age, pits, pit_time>>
  /\ pc' = "laptime"
  /\ UNCHANGED <<args, run_id, lap, rows, rng, frame, summary, calls,
                 prev_args, prev_frame, ages, draws, lap_steps>>
  /\ UNCHANGED notSim

(* lap_time = base_lap_s + deg_per_lap_s * tire_age + rng.normal(0, std);  *)
(* total += lap_time; tire_age += 1                                        *)
LapTime ==
  /\ pc = "laptime"
  /\ LET lap_time == args.base_lap_s + args.deg_per_lap_s * tire_age
                       + NormalDraw(args.noise_std_s, rng + 1)
     IN  total' = total + lap_time
  /\ rng' = rng + 1
  /\ ages' = Append(ages, tire_age)
  /\ draws' = Append(draws, rng + 1)
  /\ tire_age' = tire_age + 1
  /\ lap' = lap + 1
  /\ lap_steps' = lap_steps + 1
  /\ pc' = "inner"
  /\ UNCHANGED <<args, run_id, rows, frame, summary, calls,
                 prev_args, prev_frame, pits, pit_time>>
  /\ UNCHANGED notSim

(* rows.append({"run_id": run_id, "race_time_s": total})                   *)
EndRun ==
  /\ pc = "inner"
  /\ lap > LastLap(args)
  /\ rows' = Append(rows, [run_id |-> run_id, race_time_s |-> total])
  /\ run_id' = run_id + 1
  /\ pc' = "outer"
  /\ UNCHANGED <<args, lap, total, tire_age, rng, frame, summary, calls,
                 prev_args, prev_frame, ages, pits, pit_time, draws, lap_steps>>
  /\ UNCHANGED notSim

(* frame = pd.DataFrame(rows); frame["race_time_s"] = ...round(3).  With   *)
(* no rows the frame has no columns and the column lookup raises KeyError. *)
RoundedFrame(rs) ==
  [i \in 1..Len(rs) |->
     [run_id |-> rs[i].run_id, race_time_s |-> Round3(rs[i].race_time_s)]]

Return ==
  /\ pc = "outer"
  /\ run_id >= args.n_runs
  /\ IF rows = <<>>
       THEN /\ pc' = "raised"
            /\ frame' = <<>>
       ELSE /\ pc' = "returned"
            /\ frame' = RoundedFrame(rows)
  /\ UNCHANGED <<args, run_id, lap, total, tire_age, rows, rng, summary, calls,
                 prev_args, prev_frame, ages, pits, pit_time, draws, lap_steps>>
  /\ UNCHANGED notSim

(* --------------------------- summarize_strategy ------------------------ *)

RECURSIVE InsertSorted(_, _)
InsertSorted(s, x) ==
  IF s = <<>> THEN <<x>>
  ELSE IF x <= Head(s) THEN <<x>> \o s
  ELSE <<Head(s)>> \o InsertSorted(Tail(s), x)

RECURSIVE SortAscending(_)
SortAscending(s) == IF s = <<>> THEN <<>> ELSE InsertSorted(SortAscending(Tail(s)), Head(s))

RaceTimes(f) == [i \in 1..Len(f) |-> f[i].race_time_s]

(* Variant: the values are indexed in table order.                         *)
Unsorted(v) == v

(* The order statistics Series.quantile interpolates between.              *)
OrderStats(v) == SortAscending(v)

(* Series.quantile(k/10), linear interpolation, times 10: with the sorted  *)
(* values x[0..n-1] and h = (n-1)*k/10, x[floor h] + frac(h)*(next - it).  *)
Quantile10(v, k) ==
  LET x   == OrderStats(v)
      h10 == (Len(v) - 1) * k
      lo  == (h10 \div 10) + 1
      fr  == h10 % 10
  IN  IF fr = 0 THEN 10 * x[lo]
      ELSE 10 * x[lo] + fr * (x[lo + 1] - x[lo])

RECURSIVE SumSeq(_)
SumSeq(s) == IF s = <<>> THEN 0 ELSE Head(s) + SumSeq(Tail(s))

(* summarize_strategy(df) on the table just returned.  mean_s is kept as   *)
(* the pair (sum_ms, n); the quantiles are kept times 10, in ms.           *)
Summarize ==
  /\ pc = "returned"
  /\ LET v == RaceTimes(frame)
     IN  summary' = [n |-> Len(v), sum_ms |-> SumSeq(v),
                     p10x10 |-> Quantile10(v, 1),
                     p50x10 |-> Quantile10(v, 5),
                     p90x10 |-> Quantile10(v, 9)]
  /\ pc' = "summarized"
  /\ UNCHANGED <<args, run_id, lap, total, tire_age, rows, rng, frame, calls,
                 prev_args, prev_frame, ages, pits, pit_time, draws, lap_steps>>
  /\ UNCHANGED notSim

(* -------------------- app/pages/3_Strategy_Simulator.py ---------------- *)

(* st.slider("Race laps", min_value=20, max_value=90) and                  *)
(* st.slider("Pit lap", min_value=2, max_value=89)                         *)
LapsMin == 20
LapsMax == 90
PitLapMin == 2
PitLapMax == 89

PageRuns == 2        \* the page's run counts (200..10000) are cut to 1..PageRuns
LapsNearMin == 1     \* race laps tried: LapsMin..LapsMin + LapsNearMin, and LapsMax

NoSliders == [n_runs |-> 0, laps |-> 0, pit_lap |-> 0]

SliderSet ==
  [n_runs : 1..PageRuns,
   laps : (LapsMin..(LapsMin + LapsNearMin)) \cup {LapsMax},
   pit_lap : PitLapMin..PitLapMax]

(* Variant: the pit-lap slider is passed on as it is.                      *)
SliderPitLap(p, l) == p

(* pit_lap=min(pit_lap, laps - 1)                                          *)
PagePitLap(p, l) == IF p <= l - 1 THEN p ELSE l - 1

(* if st.button("Run simulation"): results = run_monte_carlo_strategy(...) *)
(* with the sliders' values (base lap 90.0 s, pit loss 21.5 s, degradation *)
(* 0.06 s per lap, the default noise), up to the seeding of the generator. *)
RunSimulation ==
  /\ pc = "idle"
  /\ \E v \in SliderSet :
       /\ sliders' = v
       /\ args' = [n_runs |-> v.n_runs, base_lap_s |-> 900000, laps |-> v.laps,
                   pit_lap |-> PagePitLap(v.pit_lap, v.laps), pit_loss_s |-> 215000,
                   deg_per_lap_s |-> 600, noise_std_s |-> 3500]
  /\ prev_args' = args
  /\ prev_frame' = frame
  /\ calls' = calls + 1
  /\ rows' = <<>>
  /\ rng' = default_rng(rng)
  /\ run_id' = 0
  /\ lap_steps' = 0
  /\ frame' = <<>>
  /\ summary' = NoSummary
  /\ pc' = "outer"
  /\ UNCHANGED <<lap, total, tire_age, ages, pits, pit_time, draws>>
  /\ UNCHANGED <<valVars, pipeVars, binVars, fuelVars, deltaVars, paceVars>>

SlidersIdle == sliders = NoSliders

(* ------------------------- data/schemas.py ----------------------------- *)

MaxRows == 40      \* longest input table
PatLen  == 3       \* long tables repeat a pattern of PatLen rows

(* errors[:25]                                                             *)
ErrorCap == 25

(* Cell values of a row mapping, as Python sees them: a str, an int, a     *)
(* float (n in tenths), the float nan, None, or no such key.               *)
StrVal(x)   == [t |-> "str",     s |-> x,  n |-> 0]
IntVal(k)   == [t |-> "int",     s |-> "", n |-> k]
FloatVal(k) == [t |-> "float",   s |-> "", n |-> k]
NanVal      == [t |-> "nan",     s |-> "", n |-> 0]
NoneVal     == [t |-> "none",    s |-> "", n |-> 0]
Missing     == [t |-> "missing", s |-> "", n |-> 0]

(* class DataSourceType(str, Enum)                                         *)
DataSourceType == {"user_upload", "open_historical"}

(* Strings that int() / float() parsing accepts, among those used here.    *)
IntStrings   == {"7"}
FloatStrings == {"7", "12.5"}

Fld(name, type, required, nullable) ==
  [name |-> name, type |-> type, required |-> required, nullable |-> nullable]

(* class TelemetryRecord(BaseModel): the fields in declaration order.      *)
TelemetryRecord ==
  << Fld("source_type",    "enum",  FALSE, FALSE),
     Fld("session_id",     "str",   TRUE,  FALSE),
     Fld("driver_code",    "str",   TRUE,  FALSE),
     Fld("lap_number",     "int",   TRUE,  FALSE),
     Fld("lap_distance_m", "float", TRUE,  FALSE),
     Fld("speed_kph",      "float", TRUE,  FALSE),
     Fld("throttle_pct",   "float", TRUE,  FALSE),
     Fld("brake_pct",      "float", TRUE,  FALSE),
     Fld("gear",           "int",   FALSE, TRUE),
     Fld("rpm",            "float", FALSE, TRUE),
     Fld("timestamp_utc",  "str",   FALSE, TRUE) >>

(* class HistoricalLapRecord(BaseModel)                                    *)
HistoricalLapRecord ==
  << Fld("source_type",    "enum",  FALSE, FALSE),
     Fld("session_key",    "int",   TRUE,  FALSE),
     Fld("driver_number",  "int",   TRUE,  FALSE),
     Fld("lap_number",     "int",   TRUE,  FALSE),
     Fld("lap_duration_s", "float", FALSE, TRUE),
     Fld("sector_1_s",     "float", FALSE, TRUE),
     Fld("sector_2_s",     "float", FALSE, TRUE),
     Fld("sector_3_s",     "float", FALSE, TRUE),
     Fld("compound",       "str",   FALSE, TRUE) >>

SchemaOf(m) == IF m = "TelemetryRecord" THEN TelemetryRecord ELSE HistoricalLapRecord

FieldNames(schema) == {schema[j].name : j \in 1..Len(schema)}

(* The message of the type validator of one field (lax mode), "" if the    *)
(* value is accepted.                                                      *)
TypeError(type, val) ==
  CASE type = "enum" ->
         IF val.t = "str" /\ val.s \in DataSourceType THEN ""
         ELSE "Input should be 'user_upload' or 'open_historical'"
    [] type = "str" ->
         IF val.t = "str" THEN "" ELSE "Input should be a valid string"
    [] type = "int" ->
         CASE val.t = "int" -> ""
           [] val.t = "float" ->
                IF val.n % 10 = 0 THEN ""
                ELSE "Input should be a valid integer, got a number with a fractional part"
           [] val.t = "nan" -> "Input should be a finite number"
           [] val.t = "str" ->
                IF val.s \in IntStrings THEN ""
                ELSE "Input should be a valid integer, unable to parse string as an integer"
           [] OTHER -> "Input should be a valid integer"
    [] type = "float" ->
         CASE val.t \in {"int", "float", "nan"} -> ""
           [] val.t = "str" ->
                IF val.s \in FloatStrings THEN ""
                ELSE "Input should be a valid number, unable to parse string as a number"
           [] OTHER -> "Input should be a valid number"

(* Validation of one declared field of a row.  Field(...) carries no       *)
(* constraint beyond the annotation's type.                                *)
FieldError(f, val) ==
  IF val.t = "missing" THEN (IF f.required THEN "Field required" ELSE "")
  ELSE IF val.t = "none" /\ f.nullable THEN ""
  ELSE TypeError(f.type, val)

(* model.model_validate(row): the messages of the failing fields, in       *)
(* declaration order; empty when the row validates.                        *)
RECURSIVE ErrorsFrom(_, _, _)
ErrorsFrom(schema, row, j) ==
  IF j > Len(schema) THEN <<>>
  ELSE LET m == FieldError(schema[j], row[schema[j].name])
       IN  (IF m = "" THEN <<>> ELSE <<m>>) \o ErrorsFrom(schema, row, j + 1)

model_validate(m, row) == ErrorsFrom(SchemaOf(m), row, 1)

(* f"row={idx}: {err.errors()[0]['msg']}"                                  *)
ErrorMessage(i, errs) == <<"row=", i, ": ", errs[1]>>

(* Variant: errors[-25:], the last messages instead of the first.          *)
LastErrors(errs) ==
  IF Len(errs) <= ErrorCap THEN errs ELSE SubSeq(errs, Len(errs) - ErrorCap + 1, Len(errs))

(* errors[:25]                                                             *)
FirstErrors(errs) ==
  IF Len(errs) <= ErrorCap THEN errs ELSE SubSeq(errs, 1, ErrorCap)

NoResult == [valid_rows |-> 0, invalid_rows |-> 0, errors |-> <<>>]

(* Variant: the row's ValidationError is not caught and ends the call.     *)
ValidateRowAbort ==
  /\ vpc = "loop"
  /\ idx < Len(records)
  /\ LET errs == model_validate(model, records[idx + 1])
     IN  IF errs = <<>>
           THEN /\ valid_rows' = valid_rows + 1
                /\ verdicts' = Append(verdicts, TRUE)
                /\ idx' = idx + 1
                /\ UNCHANGED <<vpc, invalid_rows, errors>>
           ELSE /\ vpc' = "raised"
                /\ UNCHANGED <<idx, valid_rows, invalid_rows, errors, verdicts>>
  /\ UNCHANGED <<model, records, result>>
  /\ UNCHANGED notVal

(* for idx, row in enumerate(records): try ... except ValidationError      *)
ValidateRow ==
  /\ vpc = "loop"
  /\ idx < Len(records)
  /\ LET errs == model_validate(model, records[idx + 1])
     IN  IF errs = <<>>
           THEN /\ valid_rows' = valid_rows + 1
                /\ verdicts' = Append(verdicts, TRUE)
                /\ UNCHANGED <<invalid_rows, errors>>
           ELSE /\ invalid_rows' = invalid_rows + 1
                /\ errors' = Append(errors, ErrorMessage(idx, errs))
                /\ verdicts' = Append(verdicts, FALSE)
                /\ UNCHANGED valid_rows
  /\ idx' = idx + 1
  /\ UNCHANGED <<vpc, model, records, result>>
  /\ UNCHANGED notVal

(* return SchemaValidationResult(valid_rows=..., invalid_rows=...,         *)
(*                               errors=errors[:25])                       *)
ReturnResult ==
  /\ vpc = "loop"
  /\ idx >= Len(records)
  /\ result' = [valid_rows |-> valid_rows, invalid_rows |-> invalid_rows,
                errors |-> FirstErrors(errors)]
  /\ vpc' = "done"
  /\ UNCHANGED <<model, records, idx, valid_rows, invalid_rows, errors, verdicts>>
  /\ UNCHANGED notVal

(* ---- the input tables of the validation runs ----                       *)

BaseTelemetry ==
  [f \in FieldNames(TelemetryRecord) |->
     CASE f = "source_type"    -> StrVal("user_upload")
       [] f = "session_id"     -> StrVal("user-session-001")
       [] f = "driver_code"    -> StrVal("VER")
       [] f = "lap_number"     -> IntVal(1)
       [] f = "lap_distance_m" -> FloatVal(105)
       [] f = "speed_kph"      -> FloatVal(3012)
       [] f = "throttle_pct"   -> FloatVal(1000)
       [] f = "brake_pct"      -> FloatVal(0)
       [] OTHER                -> NoneVal]

BaseHistorical ==
  [f \in FieldNames(HistoricalLapRecord) |->
     CASE f = "source_type"    -> StrVal("open_historical")
       [] f = "session_key"    -> IntVal(9158)
       [] f = "driver_number"  -> IntVal(44)
       [] f = "lap_number"     -> IntVal(1)
       [] f = "lap_duration_s" -> FloatVal(903)
       [] f = "compound"       -> StrVal("SOFT")
       [] OTHER                -> NoneVal]

BaseRow(m) == IF m = "TelemetryRecord" THEN BaseTelemetry ELSE BaseHistorical

CellValues ==
  { StrVal("user_upload"), StrVal("VER"), StrVal(""), StrVal("7"), StrVal("12.5"),
    StrVal("abc"), IntVal(3), IntVal(0), IntVal(-2), FloatVal(20), FloatVal(15),
    FloatVal(-50), NanVal, NoneVal, Missing }

(* Rows that differ from a valid row in one cell.                          *)
OneCellRows(m) ==
  { [BaseRow(m) EXCEPT ![f] = v] : f \in FieldNames(SchemaOf(m)), v \in CellValues }

(* The rows long tables are made of: a valid row, a row with one violation *)
(* and a row with two.                                                     *)
PatternRows(m) ==
  { BaseRow(m),
    [BaseRow(m) EXCEPT !["lap_number"] = FloatVal(15)],
    [BaseRow(m) EXCEPT !["source_type"] = StrVal("abc"), !["lap_number"] = NoneVal] }

PatternTable(n, pat) == [i \in 1..n |-> pat[((i - 1) % PatLen) + 1]]

Tables(m) ==
  { <<r>> : r \in OneCellRows(m) }
  \cup { PatternTable(n, pat) : n \in 0..MaxRows, pat \in [1..PatLen -> PatternRows(m)] }

ValIdle ==
  /\ vpc = "idle"
  /\ model = "TelemetryRecord"
  /\ records = <<>>
  /\ idx = 0
  /\ valid_rows = 0
  /\ invalid_rows = 0
  /\ errors = <<>>
  /\ result = NoResult
  /\ verdicts = <<>>

(* validate_user_telemetry(df) / validate_open_historical(df) entered with *)
(* the rows of df.                                                         *)
ValInit ==
  /\ vpc = "loop"
  /\ model \in {"TelemetryRecord", "HistoricalLapRecord"}
  /\ records \in Tables(model)
  /\ idx = 0
  /\ valid_rows = 0
  /\ invalid_rows = 0
  /\ errors = <<>>
  /\ result = NoResult
  /\ verdicts = <<>>

(* ----------------------- data/normalization.py -------------------------- *)

(* A table: n rows and an ordered list of named columns (after a rename    *)
(* two columns may carry the same name).                                   *)
Col(name, cells) == [name |-> name, cells |-> cells]
EmptyTable == [n |-> 0, cols |-> <<>>]

USER_SCHEMA_COLUMNS ==
  <<"source_type", "session_id", "driver_code", "lap_number", "lap_distance_m",
    "speed_kph", "throttle_pct", "brake_pct", "gear", "rpm", "timestamp_utc">>

OPEN_SCHEMA_COLUMNS ==
  <<"source_type", "session_key", "driver_number", "lap_number", "lap_duration_s",
    "sector_1_s", "sector_2_s", "sector_3_s", "compound">>

USER_SYNONYMS ==
  << <<"distance", "lap_distance_m">>, <<"lap_distance", "lap_distance_m">>,
     <<"speed", "speed_kph">>, <<"throttle", "throttle_pct">>,
     <<"brake", "brake_pct">>, <<"driver", "driver_code">>,
     <<"lap", "lap_number">> >>

OPEN_SYNONYMS ==
  << <<"driver", "driver_number">>, <<"lap", "lap_number">>,
     <<"lap_duration", "lap_duration_s">>, <<"sector_1", "sector_1_s">>,
     <<"sector_2", "sector_2_s">>, <<"sector_3", "sector_3_s">> >>

UserNumericCols ==
  <<"lap_number", "lap_distance_m", "speed_kph", "throttle_pct", "brake_pct",
    "gear", "rpm">>

OpenNumericCols ==
  <<"session_key", "driver_number", "lap_number", "lap_duration_s",
    "sector_1_s", "sector_2_s", "sector_3_s">>

(* Variant: the function works on the caller's table itself.              *)
SameFrame(df) == [shared |-> TRUE, df |-> df]

(* df.copy(): a new table with the same cells; writes to it do not reach   *)
(* the caller's table.                                                     *)
copy(df) == [shared |-> FALSE, df |-> df]

(* Variant: the column name is matched as written.                         *)
AsWritten(name) == name

(* col.strip().lower(), on the column names that occur here.               *)
StripLower(name) ==
  CASE name \in {"Lap", " LAP "} -> "lap"
    [] name = "Driver" -> "driver"
    [] OTHER -> name

(* _rename_with_synonyms: df.rename(columns=rename_map)                    *)
rename_with_synonyms(df, mapping) ==
  LET HasKey(k) == \E j \in 1..Len(mapping) : mapping[j][1] = k
      Lookup(k) == mapping[CHOOSE j \in 1..Len(mapping) : mapping[j][1] = k][2]
  IN  [df EXCEPT !.cols =
         [j \in 1..Len(df.cols) |->
            LET lowered == StripLower(df.cols[j].name)
            IN  IF HasKey(lowered)
                  THEN Col(Lookup(lowered), df.cols[j].cells)
                  ELSE df.cols[j]]]

ColumnNames(df) == {df.cols[j].name : j \in 1..Len(df.cols)}
ColumnsNamed(df, name) == SelectSeq(df.cols, LAMBDA c : c.name = name)
Broadcast(df, v) == [i \in 1..df.n |-> v]

(* df[name] = cells: every column of that name is replaced, or a new       *)
(* column is appended.                                                     *)
SetItem(df, name, cells) ==
  IF name \in ColumnNames(df)
    THEN [df EXCEPT !.cols =
            [j \in 1..Len(df.cols) |->
               IF df.cols[j].name = name THEN Col(name, cells) ELSE df.cols[j]]]
    ELSE [df EXCEPT !.cols = Append(df.cols, Col(name, cells))]

(* Variant: the stamp only fills a column the table does not have.         *)
StampIfAbsent(df, name, v) ==
  IF name \in ColumnNames(df) THEN df ELSE SetItem(df, name, Broadcast(df, v))

(* df["source_type"] = ...; df["session_id"] = session_id                  *)
Stamp(df, name, v) == SetItem(df, name, Broadcast(df, v))

(* for required in SCHEMA_COLUMNS: if required not in df.columns:          *)
(*     df[required] = None                                                 *)
RECURSIVE FillMissing(_, _, _)
FillMissing(df, schema, j) ==
  IF j > Len(schema) THEN df
  ELSE FillMissing(
         IF schema[j] \in ColumnNames(df) THEN df
         ELSE SetItem(df, schema[j], Broadcast(df, NoneVal)),
         schema, j + 1)

(* pd.to_numeric(series, errors="coerce"): each cell becomes the number   *)
(* it parses to, or nan; an int column if every cell parses to an int,     *)
(* else a float column.                                                    *)
to_numeric(cells) ==
  LET ParseCell(c) ==
        CASE c.t \in {"int", "float"} -> c
          [] c.t = "str" /\ c.s = "7" -> IntVal(7)
          [] c.t = "str" /\ c.s = "12.5" -> FloatVal(125)
          [] OTHER -> NanVal
      parsed == [i \in 1..Len(cells) |-> ParseCell(cells[i])]
  IN  IF \A i \in 1..Len(cells) : parsed[i].t = "int" THEN parsed
      ELSE [i \in 1..Len(cells) |->
              IF parsed[i].t = "int" THEN FloatVal(10 * parsed[i].n) ELSE parsed[i]]

(* for col in numeric_cols: df[col] = pd.to_numeric(df[col], ...).  With   *)
(* two columns named col, df[col] is a table and to_numeric raises         *)
(* TypeError.                                                              *)
RECURSIVE CoerceNumeric(_, _, _)
CoerceNumeric(df, numeric_cols, j) ==
  IF j > Len(numeric_cols) THEN [raised |-> FALSE, df |-> df]
  ELSE LET named == ColumnsNamed(df, numeric_cols[j])
       IN  IF Len(named) # 1 THEN [raised |-> TRUE, df |-> df]
           ELSE CoerceNumeric(SetItem(df, numeric_cols[j], to_numeric(named[1].cells)),
                              numeric_cols, j + 1)

(* df[SCHEMA_COLUMNS]: the columns of each listed name, in the list's      *)
(* order.                                                                  *)
RECURSIVE SelectColumns(_, _, _)
SelectColumns(df, schema, j) ==
  IF j > Len(schema) THEN <<>>
  ELSE ColumnsNamed(df, schema[j]) \o SelectColumns(df, schema, j + 1)

(* df = _rename_with_synonyms(df.copy(), USER_SYNONYMS): df.rename gives a *)
(* new table, which the later assignments write to; input is the caller's  *)
(* table when the function is left.                                        *)
normalize_user_telemetry(df, sid) ==
  LET renamed == rename_with_synonyms(copy(df).df, USER_SYNONYMS)
      stamped == Stamp(Stamp(renamed, "source_type", StrVal("user_upload")),
                       "session_id", StrVal(sid))
      filled  == FillMissing(stamped, USER_SCHEMA_COLUMNS, 1)
      coerced == CoerceNumeric(filled, UserNumericCols, 1)
  IN  IF coerced.raised THEN [raised |-> TRUE, df |-> coerced.df, input |-> df]
      ELSE [raised |-> FALSE,
            df |-> [n |-> df.n, cols |-> SelectColumns(coerced.df, USER_SCHEMA_COLUMNS, 1)],
            input |-> df]

normalize_open_historical(df) ==
  LET renamed == rename_with_synonyms(copy(df).df, OPEN_SYNONYMS)
      stamped == Stamp(renamed, "source_type", StrVal("open_historical"))
      filled  == FillMissing(stamped, OPEN_SCHEMA_COLUMNS, 1)
      coerced == CoerceNumeric(filled, OpenNumericCols, 1)
  IN  IF coerced.raised THEN [raised |-> TRUE, df |-> coerced.df, input |-> df]
      ELSE [raised |-> FALSE,
            df |-> [n |-> df.n, cols |-> SelectColumns(coerced.df, OPEN_SCHEMA_COLUMNS, 1)],
            input |-> df]

(* df.to_dict(orient="records"): per row, column name to cell; of two      *)
(* columns of one name the later one is kept.                              *)
to_dict_records(df) ==
  LET LastNamed(name) == ColumnsNamed(df, name)[Len(ColumnsNamed(df, name))]
  IN  [i \in 1..df.n |-> [f \in ColumnNames(df) |-> LastNamed(f).cells[i]]]

(* ---- the raw tables of the pipeline runs ----                           *)

MaxRawRows == 2

(* The tables read from an upload (source "user") or built from the        *)
(* fetched records (source "open"): the columns under canonical names,     *)
(* synonyms in other spellings or both, optional columns present, absent   *)
(* or with empty cells, unparsable cells, a negative distance, and columns *)
(* the schema does not know.                                               *)
RawTables(source) ==
  LET Named(names, cells) == [j \in 1..Len(names) |-> Col(names[j], cells)]
      FirstNan(n, v) == [i \in 1..n |-> IF i = 1 THEN NanVal ELSE v]
      Always(n, v) == [i \in 1..n |-> v]
      LapCells(k, n) ==
        [i \in 1..n |->
           IF k = "ints" THEN IntVal(i)
           ELSE IF i = 1 THEN StrVal("abc")
           ELSE IF i = 2 THEN StrVal("12.5") ELSE StrVal("7")]
      DistanceCells(k, n) ==
        [i \in 1..n |->
           IF k = "negative" /\ i = 1 THEN FloatVal(-100)
           ELSE FloatVal(100 + 500 * (i - 1))]
      DriverCells(n) ==
        [i \in 1..n |-> IF i % 2 = 1 THEN StrVal("VER") ELSE StrVal("HAM")]
      GearColumns(k, n) ==
        CASE k = "absent" -> <<>>
          [] k = "ints" -> <<Col("gear", Always(n, IntVal(7))),
                             Col("rpm", Always(n, FloatVal(110000)))>>
          [] k = "rpm_nan" -> <<Col("gear", Always(n, IntVal(7))),
                                Col("rpm", FirstNan(n, FloatVal(110000)))>>
          [] OTHER -> <<Col("gear", FirstNan(n, FloatVal(70))),
                        Col("rpm", Always(n, FloatVal(110000)))>>
      TimestampColumns(k, n) ==
        CASE k = "absent" -> <<>>
          [] k = "str" -> <<Col("timestamp_utc", Always(n, StrVal("2024-03-02T15:00:00Z")))>>
          [] OTHER -> <<Col("timestamp_utc", FirstNan(n, StrVal("2024-03-02T15:00:00Z")))>>
      ExtraColumns(x, n, tag) ==
        IF x
          THEN <<Col("source_type", Always(n, StrVal(tag))),
                 Col("session_id", Always(n, StrVal("other-session"))),
                 Col("notes", Always(n, StrVal("abc")))>>
          ELSE <<>>
      UserTable(n, ln, lk, dn, dk, vn, g, ts, x) ==
        [n |-> n,
         cols |-> ExtraColumns(x, n, "open_historical")
                  \o Named(ln, LapCells(lk, n))
                  \o Named(dn, DistanceCells(dk, n))
                  \o Named(vn, DriverCells(n))
                  \o <<Col("speed_kph", [i \in 1..n |-> FloatVal(3012 - 10 * i)]),
                       Col("throttle_pct", Always(n, FloatVal(1000))),
                       Col("brake_pct", Always(n, FloatVal(0)))>>
                  \o GearColumns(g, n)
                  \o TimestampColumns(ts, n)]
      OpenTable(n, ln, lk, vn, un, c, x) ==
        [n |-> n,
         cols |-> ExtraColumns(x, n, "user_upload")
                  \o <<Col("session_key", Always(n, IntVal(9158)))>>
                  \o Named(vn, Always(n, IntVal(44)))
                  \o Named(ln, LapCells(lk, n))
                  \o Named(un, FirstNan(n, FloatVal(903)))
                  \o <<Col("compound", Always(n, IF c THEN StrVal("SOFT") ELSE NoneVal))>>]
  IN  IF source = "user"
        THEN { UserTable(n, ln, lk, dn, dk, vn, g, ts, x) :
                 n \in 0..MaxRawRows,
                 ln \in {<<"lap_number">>, <<"Lap">>, <<" LAP ">>,
                         <<"Lap", "lap_number">>, <<>>},
                 lk \in {"ints", "strings"},
                 dn \in {<<"lap_distance_m">>, <<"distance", "lap_distance">>},
                 dk \in {"plain", "negative"},
                 vn \in {<<"driver_code">>, <<"Driver">>, <<"driver", "driver_code">>},
                 g \in {"absent", "ints", "rpm_nan", "gear_nan"},
                 ts \in {"absent", "str", "nan"}, x \in BOOLEAN }
        ELSE { OpenTable(n, ln, lk, vn, un, c, x) :
                 n \in 0..MaxRawRows,
                 ln \in {<<"lap_number">>, <<"Lap">>, <<"lap", "lap_number">>},
                 lk \in {"ints", "strings"},
                 vn \in {<<"driver_number">>, <<"Driver">>},
                 un \in {<<"lap_duration_s">>, <<"lap_duration">>, <<>>},
                 c \in BOOLEAN, x \in BOOLEAN }

(* -------------------------- data/ingestion.py --------------------------- *)

NoFile == ""

(* uploaded_file.name.split(".")[-1].lower(), on the file names that occur *)
(* here.                                                                   *)
Suffix(name) ==
  CASE name = "laps.csv" -> "csv"
    [] name = "laps.PARQUET" -> "parquet"
    [] name = "laps.txt" -> "txt"
    [] OTHER -> name

(* if suffix == "csv": ... elif suffix == "parquet": ...                   *)
Supported(suffix) == suffix \in {"csv", "parquet"}

(* load_uploaded_table up to the normalization: an unsupported suffix      *)
(* raises ValueError; pd.read_csv / pd.read_parquet gives the raw table,   *)
(* or raises on a file it cannot parse.                                    *)
ReadUpload ==
  /\ ppc = "called"
  /\ kind = "user"
  /\ IF Supported(Suffix(uploaded))
       THEN /\ steps' = Append(steps, "read")
            /\ \/ ppc' = "start" /\ raw' \in RawTables("user")
               \/ ppc' = "read_raised" /\ UNCHANGED raw
       ELSE /\ ppc' = "value_error"
            /\ UNCHANGED <<raw, steps>>
  /\ UNCHANGED <<kind, session_id, normalized, uploaded, attested, response>>
  /\ UNCHANGED <<valVars, notPipe>>

(* Variant: the status of the response is not looked at.                   *)
StatusIgnored(r) == FALSE

(* response.raise_for_status(): HTTPError for a non-2xx response.          *)
raise_for_status(r) == r = "http_error"

(* raw_df = fetch_openf1("laps", params): requests.get raises on a network *)
(* error, raise_for_status on a non-2xx status, response.json() on a body  *)
(* that is not JSON; otherwise the payload becomes the raw table.          *)
Fetch ==
  /\ ppc = "called"
  /\ kind = "open"
  /\ steps' = Append(steps, "fetch")
  /\ IF response = "network_error" \/ raise_for_status(response) \/ response = "bad_json"
       THEN /\ ppc' = "fetch_raised"
            /\ UNCHANGED raw
       ELSE /\ ppc' = "start"
            /\ raw' \in RawTables("open")
  /\ UNCHANGED <<kind, session_id, normalized, uploaded, attested, response>>
  /\ UNCHANGED <<valVars, notPipe>>

(* normalized = normalize_user_telemetry(raw_df, session_id=session_id)    *)
(* normalized = normalize_open_historical(raw_df)                          *)
Normalize ==
  /\ ppc = "start"
  /\ steps' = Append(steps, "normalize")
  /\ LET r == IF kind = "user" THEN normalize_user_telemetry(raw, session_id)
              ELSE normalize_open_historical(raw)
     IN  /\ IF r.raised
              THEN /\ ppc' = "raised"
                   /\ UNCHANGED normalized
              ELSE /\ ppc' = "normalized"
                   /\ normalized' = r.df
         /\ raw' = r.input
  /\ UNCHANGED <<kind, session_id, uploaded, attested, response>>
  /\ UNCHANGED <<valVars, notPipe>>

(* result = validate_user_telemetry(normalized) /                          *)
(* validate_open_historical(normalized): _validate_rows is entered with    *)
(* df.to_dict(orient="records").                                           *)
StartValidate ==
  /\ ppc = "normalized"
  /\ ppc' = "validating"
  /\ vpc' = "loop"
  /\ model' = (IF kind = "user" THEN "TelemetryRecord" ELSE "HistoricalLapRecord")
  /\ records' = to_dict_records(normalized)
  /\ idx' = 0
  /\ valid_rows' = 0
  /\ invalid_rows' = 0
  /\ errors' = <<>>
  /\ verdicts' = <<>>
  /\ UNCHANGED result
  /\ steps' = Append(steps, "validate")
  /\ UNCHANGED <<kind, raw, session_id, normalized, uploaded, attested, response>>
  /\ UNCHANGED notPipe

(* return normalized, result.errors                                        *)
PipeReturn ==
  /\ ppc = "validating"
  /\ vpc = "done"
  /\ ppc' = "returned"
  /\ UNCHANGED <<kind, raw, session_id, normalized, uploaded, attested, response, steps>>
  /\ UNCHANGED <<valVars, notPipe>>

(* ---------------------- analysis/driver_compare.py ---------------------- *)

(* bin_size_m of telemetry_bin_average, in tenths of a metre.              *)
DefaultBinSize == 500

CellOf(df, name, i) == ColumnsNamed(df, name)[1].cells[i]
NotNull(v) == v.t \in {"int", "float", "str"}
NumberOf(v) == IF v.t = "int" THEN 10 * v.n ELSE v.n

(* Variant: the distance is rounded to the nearest multiple of the bin.    *)
BinIndexNearest(d, b) ==
  IF d.t \in {"int", "float"} THEN IntVal((2 * NumberOf(d) + b) \div (2 * b)) ELSE NoneVal

(* (out["lap_distance_m"] // bin_size_m).astype("Int64"): the floor of the *)
(* quotient, <NA> for a null distance.                                     *)
BinIndex(d, b) ==
  IF d.t \in {"int", "float"} THEN IntVal(NumberOf(d) \div b) ELSE NoneVal

BinColumn(df, b) == [i \in 1..df.n |-> BinIndex(CellOf(df, "lap_distance_m", i), b)]

(* Variant: the rows are grouped by driver and lap only.                   *)
KeyOfLap(df, bins, i) ==
  <<CellOf(df, "driver_code", i).s, NumberOf(CellOf(df, "lap_number", i)), 0>>

(* The group key of row i: ["driver_code", "lap_number", "bin_index"].     *)
KeyOf(df, bins, i) ==
  <<CellOf(df, "driver_code", i).s, NumberOf(CellOf(df, "lap_number", i)), bins[i].n>>

(* dropna=True: a row with a null key is in no group.                      *)
Keyed(df, bins) ==
  {i \in 1..df.n : /\ CellOf(df, "driver_code", i).t = "str"
                   /\ CellOf(df, "lap_number", i).t \in {"int", "float"}
                   /\ bins[i].t = "int"}

(* groupby sorts the groups by key; the order of the driver codes used.    *)
CodeOrder == <<"", "ALO", "HAM", "VER">>
RECURSIVE SortedKeys(_)
SortedKeys(S) ==
  LET CodeRank(c) == CHOOSE r \in 1..Len(CodeOrder) : CodeOrder[r] = c
      KeyLess(k, o) ==
        \/ CodeRank(k[1]) < CodeRank(o[1])
        \/ k[1] = o[1] /\ k[2] < o[2]
        \/ k[1] = o[1] /\ k[2] = o[2] /\ k[3] < o[3]
      first == CHOOSE k \in S : \A o \in S : o = k \/ KeyLess(k, o)
  IN  IF S = {} THEN <<>> ELSE <<first>> \o SortedKeys(S \ {first})

(* ("speed_kph", "mean"): sum and count of the non-null values of the      *)
(* group's rows (count 0: the mean is nan).                                *)
RECURSIVE MeanFrom(_, _, _, _)
MeanFrom(df, name, members, i) ==
  IF i > df.n THEN [sum |-> 0, n |-> 0]
  ELSE LET rest == MeanFrom(df, name, members, i + 1)
           v == CellOf(df, name, i)
       IN  IF i \in members /\ v.t \in {"int", "float"}
             THEN [sum |-> rest.sum + NumberOf(v), n |-> rest.n + 1]
             ELSE rest

GroupRow(df, bins, k) ==
  LET members == {i \in Keyed(df, bins) : KeyOf(df, bins, i) = k}
  IN  [driver_code  |-> k[1],
       lap_number   |-> k[2],
       bin_index    |-> k[3],
       speed_kph    |-> MeanFrom(df, "speed_kph", members, 1),
       throttle_pct |-> MeanFrom(df, "throttle_pct", members, 1),
       brake_pct    |-> MeanFrom(df, "brake_pct", members, 1)]

(* telemetry_bin_average(df, bin_size_m): out = df.copy(), then            *)
(* out["bin_index"] is written and out is grouped; with a column name that *)
(* occurs twice it raises.  input is the caller's table when the function  *)
(* is left.                                                                *)
telemetry_bin_average(df, b) ==
  LET w == copy(df)
      out == w.df
  IN  IF \E c \in {"driver_code", "lap_number", "lap_distance_m", "speed_kph",
                   "throttle_pct", "brake_pct"} : Len(ColumnsNamed(out, c)) # 1
        THEN [raised |-> TRUE, bins |-> <<>>, rows |-> <<>>, input |-> df]
        ELSE LET bins == BinColumn(out, b)
                 keys == SortedKeys({KeyOf(out, bins, i) : i \in Keyed(out, bins)})
             IN  [raised |-> FALSE,
                  bins   |-> bins,
                  rows   |-> [g \in 1..Len(keys) |-> GroupRow(out, bins, keys[g])],
                  input  |-> IF w.shared THEN SetItem(df, "bin_index", bins) ELSE df]

(* Variant: the binned rows are not filtered by driver.                    *)
AllRows(grouped, driver) == grouped

(* binned[binned["driver_code"] == driver]                                 *)
DriverRows(grouped, driver) == SelectSeq(grouped, LAMBDA r : r.driver_code = driver)

NoMean == [sum |-> 0, n |-> 0]

(* A row of the merge; speed_delta_kph = merged["speed_a"] -               *)
(* merged["speed_b"] as a fraction (den 0: nan).                           *)
MergedRow(x, y) ==
  [lap_number |-> x.lap_number, bin_index |-> x.bin_index,
   speed_a |-> x.speed_kph, throttle_a |-> x.throttle_pct, brake_a |-> x.brake_pct,
   speed_b |-> y.speed_kph, throttle_b |-> y.throttle_pct, brake_b |-> y.brake_pct,
   speed_delta_kph |-> [num |-> x.speed_kph.sum * y.speed_kph.n
                                  - y.speed_kph.sum * x.speed_kph.n,
                        den |-> x.speed_kph.n * y.speed_kph.n]]

Matches(x, b) ==
  SelectSeq(b, LAMBDA y : y.lap_number = x.lap_number /\ y.bin_index = x.bin_index)

RECURSIVE LeftJoin(_, _, _)
(* Variant: every row of a is kept, with nulls where b has no such bin.    *)
LeftJoin(a, b, i) ==
  IF i > Len(a) THEN <<>>
  ELSE LET m == Matches(a[i], b)
       IN  (IF m = <<>>
              THEN <<MergedRow(a[i], [a[i] EXCEPT !.speed_kph = NoMean,
                                                  !.throttle_pct = NoMean,
                                                  !.brake_pct = NoMean])>>
              ELSE [j \in 1..Len(m) |-> MergedRow(a[i], m[j])])
           \o LeftJoin(a, b, i + 1)

RECURSIVE InnerJoin(_, _, _)
(* a.merge(b, on=["lap_number", "bin_index"], how="inner")                 *)
InnerJoin(a, b, i) ==
  IF i > Len(a) THEN <<>>
  ELSE LET m == Matches(a[i], b)
       IN  [j \in 1..Len(m) |-> MergedRow(a[i], m[j])] \o InnerJoin(a, b, i + 1)

(* The rest of compare_two_drivers, given binned = the result of          *)
(* telemetry_bin_average(df).                                              *)
CompareBinned(t, a, b) ==
  [raised |-> t.raised, bins |-> t.bins, rows |-> t.rows, input |-> t.input,
   merged |-> IF t.raised THEN <<>>
              ELSE InnerJoin(DriverRows(t.rows, a), DriverRows(t.rows, b), 1)]

(* compare_two_drivers(df, driver_a, driver_b)                             *)
compare_two_drivers(df, a, b) ==
  CompareBinned(telemetry_bin_average(df, DefaultBinSize), a, b)

(* A call of telemetry_bin_average(bdf, bin_size_m).                       *)
BinAverage ==
  /\ bpc = "start"
  /\ LET t == telemetry_bin_average(bdf, bin_size_m)
     IN  /\ bpc' = IF t.raised THEN "raised" ELSE "binned"
         /\ out_bins' = t.bins
         /\ binned' = t.rows
         /\ bdf' = t.input
  /\ UNCHANGED <<bin_size_m, driver_a, driver_b, merged>>
  /\ UNCHANGED notBin

(* The state after compare_two_drivers(df, a, b) returned c; bdf is the    *)
(* caller's table.                                                         *)
Returned(df, a, b, c) ==
  /\ bpc' = IF c.raised THEN "raised" ELSE "compared"
  /\ bdf' = c.input
  /\ bin_size_m' = DefaultBinSize
  /\ driver_a' = a
  /\ driver_b' = b
  /\ out_bins' = c.bins
  /\ binned' = c.rows
  /\ merged' = c.merged

(* A call of compare_two_drivers(bdf, driver_a, driver_b).                 *)
Compare ==
  /\ bpc = "start"
  /\ LET t == telemetry_bin_average(bdf, DefaultBinSize)
     IN  \E a \in {"VER", "HAM", "ALO"}, b \in {"VER", "HAM", "ALO"} :
           Returned(bdf, a, b, CompareBinned(t, a, b))
  /\ UNCHANGED notBin

(* -------------------------- utils/lap_delta.py -------------------------- *)

MaxRef == 2      \* longest reference lap
MaxCmp == 3      \* longest comparison lap

(* v or 0                                                                  *)
OrZero(v) == IF v.t = "none" THEN 0 ELSE v.n

(* Variant: the pointer also passes a sample at the reference distance.    *)
AtOrBefore(c, d) == OrZero(c) <= OrZero(d)

(* (cmp_dist[j + 1] or 0) < (d or 0)                                       *)
Before(c, d) == OrZero(c) < OrZero(d)

(* while j + 1 < len(cmp_dist) and (cmp_dist[j + 1] or 0) < (d or 0)       *)
WhileHolds ==
  /\ ld_j + 1 < Len(cmp_dist)
  /\ Before(cmp_dist[ld_j + 2], ref_dist[ld_i + 1])

(* j += 1                                                                  *)
Advance ==
  /\ dpc = "scan"
  /\ ld_i < Len(ref_dist)
  /\ WhileHolds
  /\ ld_j' = ld_j + 1
  /\ UNCHANGED <<dpc, ref_dist, ref_cum, cmp_dist, cmp_cum, ld_i, ld_x, ld_y, ld_js>>
  /\ UNCHANGED notDelta

(* x.append(d or 0.0); y.append((ref_cum[i] or 0.0) - (cmp_cum[j] or 0.0)) *)
(* A list index out of range raises IndexError.                            *)
AppendSample ==
  /\ dpc = "scan"
  /\ ld_i < Len(ref_dist)
  /\ ~WhileHolds
  /\ ld_x' = Append(ld_x, OrZero(ref_dist[ld_i + 1]))
  /\ IF ld_i + 1 > Len(ref_cum) \/ ld_j + 1 > Len(cmp_cum)
       THEN /\ dpc' = "index_error"
            /\ UNCHANGED <<ld_i, ld_y, ld_js>>
       ELSE /\ ld_y' = Append(ld_y, OrZero(ref_cum[ld_i + 1]) - OrZero(cmp_cum[ld_j + 1]))
            /\ ld_js' = Append(ld_js, ld_j)
            /\ ld_i' = ld_i + 1
            /\ UNCHANGED dpc
  /\ UNCHANGED <<ref_dist, ref_cum, cmp_dist, cmp_cum, ld_j>>
  /\ UNCHANGED notDelta

(* return x, y                                                             *)
DeltaReturn ==
  /\ dpc = "scan"
  /\ ld_i >= Len(ref_dist)
  /\ dpc' = "returned"
  /\ UNCHANGED <<ref_dist, ref_cum, cmp_dist, cmp_cum, ld_i, ld_j, ld_x, ld_y, ld_js>>
  /\ UNCHANGED notDelta

(* A call of lap_delta: x, y = [], []; j = 0.  The lists come from the lap *)
(* files: numbers or nulls, the cumulative times as long as the distances  *)
(* or one short.                                                           *)
DeltaInit ==
  LET Lists(n) == UNION {[1..k -> {NoneVal, FloatVal(10), FloatVal(20)}] : k \in 0..n}
      CumTimes(n, step) == {[k \in 1..m |-> FloatVal(step * k)] : m \in {n, n - 1} \cap Nat}
  IN  /\ dpc = "scan"
      /\ ref_dist \in Lists(MaxRef)
      /\ cmp_dist \in Lists(MaxCmp)
      /\ ref_cum \in CumTimes(Len(ref_dist), 100)
      /\ cmp_cum \in CumTimes(Len(cmp_dist), 90)
      /\ ld_i = 0
      /\ ld_j = 0
      /\ ld_x = <<>>
      /\ ld_y = <<>>
      /\ ld_js = <<>>

DeltaIdle ==
  /\ dpc = "idle"
  /\ ref_dist = <<>>
  /\ ref_cum = <<>>
  /\ cmp_dist = <<>>
  /\ cmp_cum = <<>>
  /\ ld_i = 0
  /\ ld_j = 0
  /\ ld_x = <<>>
  /\ ld_y = <<>>
  /\ ld_js = <<>>

(* ------------------ app/pages/1_User_Telemetry_Upload.py ---------------- *)

(* Variant: the page loads whatever is uploaded.                           *)
UploadedOnly(file, box) == file # NoFile

(* if uploaded and attested:                                               *)
UploadedAndAttested(file, box) == file # NoFile /\ box

(* The page script up to load_uploaded_table(uploaded, session_id): the    *)
(* call is made only with a file and the attestation box checked.          *)
PageLoad ==
  /\ ppc = "page"
  /\ ppc' = IF UploadedAndAttested(uploaded, attested) THEN "called" ELSE "page_idle"
  /\ UNCHANGED <<kind, raw, session_id, normalized, uploaded, attested, response, steps>>
  /\ UNCHANGED <<valVars, notPipe>>

(* [value for value in df["driver_code"].dropna().astype(str).unique()     *)
(*  .tolist() if value]                                                    *)
valid_driver_values(df) ==
  {CellOf(df, "driver_code", i).s :
     i \in {r \in 1..df.n : /\ CellOf(df, "driver_code", r).t = "str"
                            /\ CellOf(df, "driver_code", r).s # ""}}

(* The page after load_uploaded_table returned: with two columns named     *)
(* driver_code the driver list cannot be built and the page stops with an  *)
(* error; with at least two driver codes and two different drivers         *)
(* selected it calls compare_two_drivers(df, driver_a, driver_b).          *)
PageCompare ==
  /\ ppc = "returned"
  /\ kind = "user"
  /\ IF Len(ColumnsNamed(normalized, "driver_code")) # 1
       THEN /\ ppc' = "page_raised"
            /\ UNCHANGED binVars
       ELSE /\ Cardinality(valid_driver_values(normalized)) >= 2
            /\ \E a \in valid_driver_values(normalized),
                  b \in valid_driver_values(normalized) :
                 /\ a # b
                 /\ Returned(normalized, a, b, compare_two_drivers(normalized, a, b))
            /\ ppc' = "compared"
  /\ UNCHANGED <<kind, raw, session_id, normalized, uploaded, attested, response, steps>>
  /\ UNCHANGED <<simVars, valVars, fuelVars, deltaVars, paceVars, pageVars>>

(* ------------------------ analysis/tire_model.py ------------------------ *)

DEFAULT_START_FUEL_KG == 100

(* binary64 numbers below 2^IntBits that are multiples of 2^-FracBits, as  *)
(* a sign and GridLen binary digits, digit k of weight 2^(IntBits - k);    *)
(* a significand has Precision digits.  The digits are worked on eight at  *)
(* a time.                                                                 *)
Precision == 53
IntBits == 16
FracBits == 56
GridLen == IntBits + FracBits

RECURSIVE IntDigits(_, _)
IntDigits(v, n) == IF n = 0 THEN <<>> ELSE IntDigits(v \div 2, n - 1) \o <<v % 2>>

(* The number made of digits 8j-7 .. 8j of x.                              *)
Octet(x, j) ==
  128 * x[8 * j - 7] + 64 * x[8 * j - 6] + 32 * x[8 * j - 5] + 16 * x[8 * j - 4]
    + 8 * x[8 * j - 3] + 4 * x[8 * j - 2] + 2 * x[8 * j - 1] + x[8 * j]

(* The next n binary digits of r / d (0 <= r < d) and what remains.        *)
RECURSIVE FracDigits(_, _, _)
FracDigits(r, d, n) ==
  IF n = 0 THEN [digits |-> <<>>, rem |-> r]
  ELSE LET rest == FracDigits((256 * r) % d, d, n - 8)
       IN  [digits |-> IntDigits((256 * r) \div d, 8) \o rest.digits, rem |-> rest.rem]

NoDigits == [k \in 1..GridLen |-> 0]
FromInt(v) == IntDigits(v, IntBits) \o [k \in 1..FracBits |-> 0]
Zero == [neg |-> FALSE, digits |-> NoDigits]

(* Rounding of an exact result (digits, and whether more follows them) to  *)
(* a significand of Precision digits, ties to even.                        *)
RoundNearestEven(digits, sticky) ==
  LET leading == CHOOSE k \in 1..GridLen :
                   digits[k] = 1 /\ \A j \in 1..(k - 1) : digits[j] = 0
      last == leading + Precision - 1
      kept == SubSeq(digits, 1, last) \o [k \in 1..(GridLen - last) |-> 0]
      more == sticky \/ \E k \in (last + 2)..GridLen : digits[k] = 1
      z    == CHOOSE j \in 1..last :
                kept[j] = 0 /\ \A i \in (j + 1)..last : kept[i] = 1
      up   == [i \in 1..GridLen |->
                 IF i = z THEN 1 ELSE IF i > z /\ i <= last THEN 0 ELSE kept[i]]
  IN  IF digits = NoDigits THEN digits
      ELSE IF last >= GridLen THEN digits
      ELSE IF digits[last + 1] = 1 /\ (more \/ digits[last] = 1) THEN up
      ELSE kept

(* v / d for integers v >= 0, d >= 1                                       *)
Divide(v, d) ==
  LET f == FracDigits(v % d, d, FracBits)
  IN  RoundNearestEven(IntDigits(v \div d, IntBits) \o f.digits, f.rem # 0)

(* Digits 1..8j of x * n + carry, from the low end.                        *)
RECURSIVE TimesFrom(_, _, _, _)
TimesFrom(x, n, j, carry) ==
  IF j = 0 THEN <<>>
  ELSE LET t == Octet(x, j) * n + carry
       IN  TimesFrom(x, n, j - 1, t \div 256) \o IntDigits(t % 256, 8)

(* x * n for an integer n >= 0                                             *)
Times(x, n) == RoundNearestEven(TimesFrom(x, n, GridLen \div 8, 0), FALSE)

Below(x, y) ==
  \E k \in 1..GridLen : x[k] < y[k] /\ \A j \in 1..(k - 1) : x[j] = y[j]

(* Digits 1..8j of x - y - borrow, from the low end.                       *)
RECURSIVE MinusFrom(_, _, _, _)
MinusFrom(x, y, j, borrow) ==
  IF j = 0 THEN <<>>
  ELSE LET t == Octet(x, j) - Octet(y, j) - borrow
       IN  IF t < 0 THEN MinusFrom(x, y, j - 1, 1) \o IntDigits(t + 256, 8)
           ELSE MinusFrom(x, y, j - 1, 0) \o IntDigits(t, 8)

(* x - y for x, y >= 0                                                     *)
Minus(x, y) ==
  IF Below(x, y)
    THEN [neg |-> TRUE,
          digits |-> RoundNearestEven(MinusFrom(y, x, GridLen \div 8, 0), FALSE)]
    ELSE [neg |-> FALSE,
          digits |-> RoundNearestEven(MinusFrom(x, y, GridLen \div 8, 0), FALSE)]

(* np.maximum(x, 0)                                                        *)
maximum0(x) == IF x.neg THEN Zero ELSE x

(* max(total_laps, 1)                                                      *)
Max1(t) == IF t >= 1 THEN t ELSE 1

(* estimate_fuel_mass(lap_number, total_laps), lap_number >= 0             *)
estimate_fuel_mass(l, t) ==
  LET burned_per_lap == Divide(DEFAULT_START_FUEL_KG, Max1(t))
  IN  maximum0(Minus(FromInt(DEFAULT_START_FUEL_KG), Times(burned_per_lap, l)))

(* Laps past total_laps a call is made for.                                *)
MaxTotalLaps == 97
LapsBeyond == 2

(* A call estimate_fuel_mass(lap_number, total_laps).                      *)
EstimateFuel ==
  /\ fpc = "start"
  /\ fpc' = "done"
  /\ fuel_mass' = estimate_fuel_mass(lap_number, total_laps)
  /\ UNCHANGED <<total_laps, lap_number, fuel_prev>>
  /\ UNCHANGED notFuel

(* The next call is made for the next lap.                                 *)
NextLap ==
  /\ fpc = "done"
  /\ lap_number < Max1(total_laps) + LapsBeyond
  /\ fpc' = "start"
  /\ lap_number' = lap_number + 1
  /\ fuel_prev' = fuel_mass
  /\ UNCHANGED <<total_laps, fuel_mass>>
  /\ UNCHANGED notFuel

FuelInit ==
  /\ fpc = "start"
  /\ total_laps \in 0..MaxTotalLaps
  /\ lap_number = 0
  /\ fuel_mass = Zero
  /\ fuel_prev = Zero

(* 0.03 s per kg, in units of 0.00001 s per gram                           *)
DEFAULT_FUEL_PENALTY_S_PER_KG == 3

(* rolling(window=5, min_periods=2)                                        *)
RollingWindow == 5
MinPeriods == 2

(* A fuel mass in grams (rounded down), from its binary digits.            *)
Grams(x) ==
  LET whole == 256 * Octet(x.digits, 1) + Octet(x.digits, 2)
      part  == 4096 * Octet(x.digits, 3) + 16 * Octet(x.digits, 4)
                 + (Octet(x.digits, 5) \div 16)
  IN  1000 * whole + ((1000 * part) \div 1048576)

(* df["lap_number"].max(): nan for a column with no number.                *)
ColumnMax(cells) ==
  LET present == {NumberOf(cells[i]) : i \in {k \in 1..Len(cells) : cells[k].t \in {"int", "float"}}}
  IN  IF present = {} THEN NanVal
      ELSE FloatVal(CHOOSE m \in present : \A o \in present : o <= m)

(* Variant: a window of four rows.                                         *)
InWindowOfFour(k, i) == k <= i /\ k > i - 4

(* The rows of the trailing window that ends at row i.                     *)
InWindow(k, i) == k <= i /\ k > i - RollingWindow

(* series.rolling(window=5, min_periods=2).mean(), kept as the sum and the *)
(* count of the non-null values of the window.                             *)
RollingMean(cells) ==
  [i \in 1..Len(cells) |->
     LET valid == {k \in 1..Len(cells) : InWindow(k, i) /\ cells[k].t = "float"}
     IN  IF Cardinality(valid) >= MinPeriods
           THEN [t |-> "float", s |-> "",
                 n |-> SumSeq([k \in 1..Len(cells) |-> IF k \in valid THEN cells[k].n ELSE 0]),
                 of |-> Cardinality(valid)]
           ELSE NanVal]

(* Variant: the lap-time column is not checked.                            *)
NeverMissing(df, lap_time_col) == FALSE

(* lap_time_col not in df.columns                                          *)
MissingColumn(df, lap_time_col) == lap_time_col \notin ColumnNames(df)

(* fuel_corrected_pace(laps_df, lap_time_col).  Lap times are in units of  *)
(* 0.00001 s in the result, fuel masses in grams.  input is the caller's   *)
(* table after the call.                                                   *)
fuel_corrected_pace(caller_df, lap_time_col) ==
  LET w == copy(caller_df)
      df == w.df
      Raised(what, written) ==
        [outcome |-> what, df |-> EmptyTable,
         input |-> IF w.shared THEN written ELSE caller_df]
  IN  IF MissingColumn(df, lap_time_col) THEN Raised("ValueError: Missing required column", df)
      ELSE IF "lap_number" \notin ColumnNames(df) THEN Raised("KeyError: lap_number", df)
      ELSE LET lap_cells == ColumnsNamed(df, "lap_number")[1].cells
               highest == ColumnMax(lap_cells)
           IN  IF highest.t = "nan"
                 THEN Raised("ValueError: cannot convert float NaN to integer", df)
               ELSE
           LET inferred == highest.n \div 10
               filled == [i \in 1..df.n |->
                            IF lap_cells[i].t \in {"int", "float"}
                              THEN NumberOf(lap_cells[i]) \div 10 ELSE 1]
               masses == [i \in 1..df.n |->
                               FloatVal(Grams(estimate_fuel_mass(filled[i], inferred)))]
               with_mass == SetItem(df, "fuel_mass_kg", masses)
               effect == [i \in 1..df.n |->
                            FloatVal(masses[i].n * DEFAULT_FUEL_PENALTY_S_PER_KG)]
               with_effect == SetItem(with_mass, "fuel_effect_s", effect)
           IN  IF lap_time_col \notin ColumnNames(df)
                 THEN Raised("KeyError: lap time", with_effect)
               ELSE
           LET times == to_numeric(ColumnsNamed(df, lap_time_col)[1].cells)
               corrected == [i \in 1..df.n |->
                               IF times[i].t \in {"int", "float"}
                                 THEN FloatVal(10000 * NumberOf(times[i]) - effect[i].n)
                                 ELSE NanVal]
               with_corrected == SetItem(with_effect, "fuel_corrected_lap_s", corrected)
               final == SetItem(with_corrected, "degradation_trend_s", RollingMean(corrected))
           IN  [outcome |-> "returned", df |-> final,
                input |-> IF w.shared THEN final ELSE caller_df]

(* A call fuel_corrected_pace(laps_df).                                    *)
PaceCall ==
  /\ pace_pc = "start"
  /\ LET r == fuel_corrected_pace(laps_df, "lap_duration_s")
     IN  /\ pace_pc' = r.outcome
         /\ modeled' = r.df
         /\ laps_df' = r.input
  /\ UNCHANGED notPace

MaxPaceRows == 6

(* The lap tables passed to fuel_corrected_pace: lap times that are        *)
(* numbers, nulls or unparsable, in any pattern, or no lap-time column;    *)
(* lap numbers counting up, repeating per driver, with nulls, all null, or *)
(* no lap_number column.                                                   *)
PaceInit ==
  LET TimeColumns(n) ==
        {<<>>} \cup
        {<<Col("lap_duration_s",
               [i \in 1..n |-> IF given[i] THEN FloatVal(900 + i)
                               ELSE IF i % 2 = 0 THEN NanVal ELSE StrVal("abc")])>> :
           given \in [1..n -> BOOLEAN]}
      LapColumns(n) ==
        { <<>>,
          <<Col("lap_number", [i \in 1..n |-> IntVal(i)])>>,
          <<Col("lap_number", [i \in 1..n |-> IF i = 2 THEN NanVal ELSE FloatVal(10 * i)])>>,
          <<Col("lap_number", [i \in 1..n |-> NanVal])>>,
          <<Col("lap_number", [i \in 1..n |-> IntVal(((i - 1) % 3) + 1)]),
            Col("driver_number", [i \in 1..n |-> IntVal(IF i <= 3 THEN 44 ELSE 1)])>> }
  IN  /\ pace_pc = "start"
      /\ laps_df \in UNION { {[n |-> n, cols |-> lc \o tc] :
                                lc \in LapColumns(n), tc \in TimeColumns(n)} :
                             n \in 0..MaxPaceRows }
      /\ modeled = EmptyTable

PaceIdle ==
  /\ pace_pc = "idle"
  /\ laps_df = EmptyTable
  /\ modeled = EmptyTable

PipeIdle ==
  /\ ppc = "idle"
  /\ kind = "user"
  /\ raw = EmptyTable
  /\ session_id = ""
  /\ normalized = EmptyTable
  /\ uploaded = NoFile
  /\ attested = FALSE
  /\ response = "ok"
  /\ steps = <<>>

(* The upload page before its script decides whether to load, with any    *)
(* file and either state of the attestation box; and                       *)
(* load_open_historical_laps(session_key) when called, with any fate of    *)
(* the request.                                                            *)
PipeInit ==
  /\ \/ /\ kind = "user"
        /\ ppc = "page"
        /\ session_id = "user-session-001"
        /\ uploaded \in {NoFile, "laps.csv", "laps.PARQUET", "laps.txt"}
        /\ attested \in BOOLEAN
        /\ response = "ok"
     \/ /\ kind = "open"
        /\ ppc = "called"
        /\ session_id = ""
        /\ uploaded = NoFile
        /\ attested = FALSE
        /\ response \in {"ok", "http_error", "network_error", "bad_json"}
  /\ raw = EmptyTable
  /\ normalized = EmptyTable
  /\ steps = <<>>

(* ---- the telemetry tables of the binning runs ----                      *)

MaxBinRows == 3

(* The telemetry tables binned: rows of two drivers, two laps and nearby   *)
(* distances (one negative, one speed missing), then at most one row with  *)
(* a null key; lap_number is a numeric column.                             *)
BinTables ==
  LET Row(driver, lap_no, distance, speed) ==
        [driver_code |-> driver, lap_number |-> lap_no, lap_distance_m |-> distance,
         speed_kph |-> speed,
         throttle_pct |-> IF distance.t = "float" /\ distance.n >= 400
                            THEN FloatVal(1000) ELSE FloatVal(500),
         brake_pct |-> FloatVal(0)]
      RowPool ==
        { Row(StrVal("VER"), IntVal(1), FloatVal(100), FloatVal(3000)),
          Row(StrVal("VER"), IntVal(1), FloatVal(600), FloatVal(2900)),
          Row(StrVal("VER"), IntVal(1), FloatVal(400), FloatVal(2800)),
          Row(StrVal("HAM"), IntVal(1), FloatVal(100), FloatVal(2950)),
          Row(StrVal("HAM"), IntVal(2), FloatVal(-100), NanVal) }
      NullKeyRows ==
        { <<>>,
          <<Row(NoneVal, IntVal(1), FloatVal(100), FloatVal(3000))>>,
          <<Row(StrVal("VER"), NanVal, FloatVal(100), FloatVal(3000))>>,
          <<Row(StrVal("HAM"), IntVal(1), NanVal, FloatVal(3000))>> }
      TableOf(rs) ==
        [n |-> Len(rs),
         cols |-> <<Col("driver_code", [i \in 1..Len(rs) |-> rs[i].driver_code]),
                    Col("lap_number", to_numeric([i \in 1..Len(rs) |-> rs[i].lap_number])),
                    Col("lap_distance_m", [i \in 1..Len(rs) |-> rs[i].lap_distance_m]),
                    Col("speed_kph", [i \in 1..Len(rs) |-> rs[i].speed_kph]),
                    Col("throttle_pct", [i \in 1..Len(rs) |-> rs[i].throttle_pct]),
                    Col("brake_pct", [i \in 1..Len(rs) |-> rs[i].brake_pct])>>]
  IN  UNION { {TableOf(rs \o nk) : rs \in [1..n -> RowPool], nk \in NullKeyRows} :
              n \in 0..MaxBinRows }

BinInit ==
  /\ bpc = "start"
  /\ bdf \in BinTables
  /\ bin_size_m \in {500, 300}
  /\ out_bins = <<>>
  /\ binned = <<>>
  /\ driver_a = ""
  /\ driver_b = ""
  /\ merged = <<>>

BinIdle ==
  /\ bpc = "idle"
  /\ bdf = EmptyTable
  /\ bin_size_m = 500
  /\ out_bins = <<>>
  /\ binned = <<>>
  /\ driver_a = ""
  /\ driver_b = ""
  /\ merged = <<>>

FuelIdle ==
  /\ fpc = "idle"
  /\ total_laps = 0
  /\ lap_number = 0
  /\ fuel_mass = Zero
  /\ fuel_prev = Zero

SimInit ==
  /\ pc = "idle"
  /\ args = NoArgs
  /\ run_id = 0
  /\ lap = 0
  /\ total = 0
  /\ tire_age = 0
  /\ rows = <<>>
  /\ rng = 0
  /\ frame = <<>>
  /\ summary = NoSummary
  /\ calls = 0
  /\ prev_args = NoArgs
  /\ prev_frame = <<>>
  /\ ages = <<>>
  /\ draws = <<>>
  /\ pits = 0
  /\ pit_time = 0
  /\ lap_steps = 0

Init == SimInit /\ ValIdle /\ PipeIdle /\ BinIdle /\ FuelIdle /\ DeltaIdle /\ PaceIdle /\ SlidersIdle

Next ==
  \/ Call
  \/ BeginRun
  \/ PitCheck
  \/ LapTime
  \/ EndRun
  \/ Return
  \/ Summarize

Spec == Init /\ [][Next]_vars

(* The Strategy Simulator page: one press of the button, the simulation    *)
(* and its summary.                                                        *)
StrategyNext ==
  \/ RunSimulation
  \/ BeginRun
  \/ PitCheck
  \/ LapTime
  \/ EndRun
  \/ Return
  \/ Summarize

StrategySpec == Init /\ [][StrategyNext]_vars

ValStart == SimInit /\ ValInit /\ PipeIdle /\ BinIdle /\ FuelIdle /\ DeltaIdle /\ PaceIdle /\ SlidersIdle

ValNext ==
  \/ ValidateRow
  \/ ReturnResult

ValSpec == ValStart /\ [][ValNext]_vars

PipeStart == SimInit /\ ValIdle /\ PipeInit /\ BinIdle /\ FuelIdle /\ DeltaIdle /\ PaceIdle /\ SlidersIdle

PipeNext ==
  \/ PageLoad
  \/ ReadUpload
  \/ Fetch
  \/ Normalize
  \/ StartValidate
  \/ ValidateRow
  \/ ReturnResult
  \/ PipeReturn
  \/ PageCompare

PipeSpec == PipeStart /\ [][PipeNext]_vars

BinStart == SimInit /\ ValIdle /\ PipeIdle /\ BinInit /\ FuelIdle /\ DeltaIdle /\ PaceIdle /\ SlidersIdle

BinNext ==
  \/ BinAverage
  \/ Compare

BinSpec == BinStart /\ [][BinNext]_vars

FuelStart == SimInit /\ ValIdle /\ PipeIdle /\ BinIdle /\ FuelInit /\ DeltaIdle /\ PaceIdle /\ SlidersIdle

FuelNext ==
  \/ EstimateFuel
  \/ NextLap

FuelSpec == FuelStart /\ [][FuelNext]_vars

DeltaStart == SimInit /\ ValIdle /\ PipeIdle /\ BinIdle /\ FuelIdle /\ DeltaInit /\ PaceIdle /\ SlidersIdle

DeltaNext ==
  \/ Advance
  \/ AppendSample
  \/ DeltaReturn

DeltaSpec == DeltaStart /\ [][DeltaNext]_vars

PaceStart ==
  SimInit /\ ValIdle /\ PipeIdle /\ BinIdle /\ FuelIdle /\ DeltaIdle /\ PaceInit /\ SlidersIdle

PaceNext == PaceCall

PaceSpec == PaceStart /\ [][PaceNext]_vars

(* The core transformations together: a run of either loader (with the     *)
(* upload page's comparison), of the binning and comparison, or of the     *)
(* pace model.                                                             *)
CoreStart == PipeStart \/ BinStart \/ PaceStart

CoreNext == PipeNext \/ BinNext \/ PaceNext

CoreSpec == CoreStart /\ [][CoreNext]_vars

(* lap_delta runs on until it returns or raises.                           *)
FairDeltaSpec == DeltaSpec /\ WF_vars(DeltaNext)

(* The simulator runs on: nothing but the end of the program stops it.     *)
SimStep == BeginRun \/ PitCheck \/ LapTime \/ EndRun \/ Return
FairSpec == Spec /\ WF_vars(SimStep)

(* ------------------------------ claims --------------------------------- *)

SameButRuns(a, b) == [a EXCEPT !.n_runs = 0] = [b EXCEPT !.n_runs = 0]
InRun == pc \in {"inner", "laptime"}
RunEnded == pc = "outer" /\ run_id > 0
MinOf(a, b) == IF a <= b THEN a ELSE b

(* C1: at the lap whose index equals pit_lap the pit loss is added and     *)
(* tire_age is 0 before that lap's time is computed; every lap's           *)
(* degradation term uses lap-1 before the pit lap (or when no pit fires)   *)
(* and lap-pit_lap from the pit lap on.                                    *)
C1_PitBeforeLapTime ==
  /\ (pc = "laptime" /\ lap = args.pit_lap) =>
       /\ tire_age = 0
       /\ pits = 1
       /\ pit_time = args.pit_loss_s
       /\ Len(ages) = lap - 1
  /\ InRun =>
       \A k \in 1..Len(ages) :
         ages[k] = IF args.pit_lap \in 1..k THEN k - args.pit_lap ELSE k - 1
  /\ pc = "laptime" => Len(ages) = lap - 1
  /\ pc = "inner" => Len(ages) = lap - 1

C1_Witness ==
  /\ pc = "inner"
  /\ args.pit_lap = 2
  /\ ages = <<0, 0, 1>>
  /\ pit_time = args.pit_loss_s

(* C2: with laps >= 1 and pit_lap > laps the pit event never fires: no    *)
(* pit loss is added, tire_age is never reset and reaches laps at the end  *)
(* of each run, and the call does not raise (n_runs >= 1, the contract's   *)
(* domain).                                                                *)
C2_PitBeyondLapsNeverFires ==
  (calls >= 1 /\ args.laps >= 1 /\ args.pit_lap > args.laps /\ args.n_runs >= 1) =>
    /\ pits = 0
    /\ pit_time = 0
    /\ pc # "raised"
    /\ InRun => tire_age = Len(ages)
    /\ RunEnded => tire_age = args.laps

C2_Witness ==
  /\ pc = "returned"
  /\ args.laps >= 2
  /\ args.pit_lap > args.laps
  /\ tire_age = args.laps
  /\ pits = 0

(* C3 as stated: every pit_lap >= laps, pit_lap = laps included, never     *)
(* triggers a pit stop.                                                    *)
C3_Original ==
  (calls >= 1 /\ args.pit_lap >= args.laps) => (pits = 0 /\ pit_time = 0)

(* C3 as amended: every pit_lap > laps never triggers a pit stop, while    *)
(* pit_lap = laps (laps >= 1) triggers one on the final lap of every run:  *)
(* the pit loss is added once and the final lap is run with tire_age 0.    *)
C3_Amended ==
  /\ (calls >= 1 /\ args.pit_lap > args.laps) => (pits = 0 /\ pit_time = 0)
  /\ (RunEnded /\ args.pit_lap = args.laps /\ args.laps >= 1) =>
       /\ pits = 1
       /\ pit_time = args.pit_loss_s
       /\ ages[args.laps] = 0
       /\ tire_age = 1

C3_Witness ==
  /\ RunEnded
  /\ args.pit_lap = args.laps
  /\ args.laps >= 2
  /\ pits = 1
  /\ tire_age = 1

(* C4: two calls with identical arguments return identical race_time_s     *)
(* sequences, row for row.                                                 *)
C4_Deterministic ==
  (pc = "returned" /\ calls >= 2 /\ args = prev_args) => frame = prev_frame

C4_Witness ==
  /\ pc = "returned"
  /\ calls = 2
  /\ args = prev_args
  /\ args.noise_std_s > 0
  /\ Len(frame) >= 2
  /\ frame = prev_frame
  /\ frame[1].race_time_s # frame[2].race_time_s

(* C5: the generator is seeded once per call and never between runs, and   *)
(* lap l of run r consumes draw number r*laps + l; so the first m rows for *)
(* a larger n_runs are the rows for n_runs = m.                            *)
C5_SingleStream ==
  /\ InRun =>
       /\ Len(draws) = Len(ages)
       /\ \A l \in 1..Len(draws) : draws[l] = run_id * args.laps + l
  /\ (pc = "returned" /\ calls >= 2 /\ SameButRuns(args, prev_args)) =>
       \A i \in 1..MinOf(Len(frame), Len(prev_frame)) : frame[i] = prev_frame[i]

C5_Witness ==
  /\ pc = "returned"
  /\ calls = 2
  /\ SameButRuns(args, prev_args)
  /\ args.noise_std_s > 0
  /\ args.laps >= 2
  /\ Len(prev_frame) >= 2
  /\ Len(frame) > Len(prev_frame)
  /\ draws[args.laps] = args.n_runs * args.laps

C6_Started == pc = "outer" /\ run_id = 0 /\ args.n_runs >= 1 /\ args.laps >= 1
C6_Counts ==
  (calls >= 1 /\ args.n_runs >= 1 /\ args.laps >= 1) =>
    /\ lap_steps <= args.n_runs * args.laps
    /\ pc # "raised"
    /\ pc \in {"returned", "summarized"} =>
         /\ lap_steps = args.n_runs * args.laps
         /\ Len(frame) = args.n_runs
         /\ \A i \in 1..Len(frame) : frame[i].run_id = i - 1

(* C6: for n_runs >= 1 and laps >= 1 the call terminates, after exactly    *)
(* n_runs * laps lap transitions, returning n_runs rows with run_id        *)
(* 0, 1, ..., n_runs-1 in that order.                                      *)
C6_Terminates == []C6_Counts /\ (C6_Started ~> (pc = "returned"))

C6_Witness ==
  /\ pc = "returned"
  /\ args.n_runs >= 2
  /\ args.laps >= 2
  /\ lap_steps = args.n_runs * args.laps
  /\ Len(frame) = args.n_runs

(* C7: for any non-empty run table, summarize_strategy returns             *)
(* p10_s <= p50_s <= p90_s.                                                *)
C7_QuantilesOrdered ==
  pc = "summarized" =>
    /\ summary.n = Len(frame)
    /\ summary.n >= 1
    /\ summary.p10x10 <= summary.p50x10
    /\ summary.p50x10 <= summary.p90x10

C7_Witness ==
  /\ pc = "summarized"
  /\ summary.n >= 3
  /\ summary.p10x10 < summary.p50x10
  /\ summary.p50x10 < summary.p90x10
  /\ \E i \in 1..(Len(frame) - 1) : frame[i].race_time_s > frame[i + 1].race_time_s

(* ---- validation claims ----                                             *)

(* The 0-based indices of the rows counted invalid, ascending. *)
RECURSIVE InvalidFrom(_)
InvalidFrom(i) ==
  IF i > Len(verdicts) THEN <<>>
  ELSE (IF verdicts[i] THEN <<>> ELSE <<i - 1>>) \o InvalidFrom(i + 1)

(* The message of the first declared field of the row that fails. *)
FirstViolation(m, row) ==
  LET schema == SchemaOf(m)
      bad == {j \in 1..Len(schema) : FieldError(schema[j], row[schema[j].name]) # ""}
      j0 == CHOOSE j \in bad : \A k \in bad : j <= k
  IN  FieldError(schema[j0], row[schema[j0].name])

(* C8: row validation processes every row and never raises: valid_rows +   *)
(* invalid_rows equals the number of rows, and an invalid row is counted   *)
(* and does not stop the validation of the rows after it.                  *)
C8_EveryRowCounted ==
  /\ vpc # "raised"
  /\ valid_rows + invalid_rows = idx
  /\ Len(verdicts) = idx
  /\ invalid_rows = Len(InvalidFrom(1))
  /\ vpc = "done" =>
       /\ idx = Len(records)
       /\ result.valid_rows + result.invalid_rows = Len(records)
       /\ result.invalid_rows = invalid_rows

C8_Witness ==
  /\ vpc = "done"
  /\ Len(records) >= 3
  /\ ~verdicts[1]
  /\ verdicts[2]
  /\ ~verdicts[3]
  /\ result.invalid_rows >= 2
  /\ result.valid_rows >= 1

(* C9: the returned error list holds exactly min(invalid_rows, 25)         *)
(* messages, one per invalid row (its first violation), in ascending row   *)
(* order, each starting with row=<0-based index>: those of the first 25    *)
(* invalid rows, while invalid_rows counts all of them.                    *)
C9_ErrorListCapped ==
  vpc = "done" =>
    LET inv == InvalidFrom(1)
    IN  /\ result.invalid_rows = Len(inv)
        /\ Len(result.errors) = MinOf(result.invalid_rows, 25)
        /\ \A k \in 1..Len(result.errors) :
             /\ result.errors[k][1] = "row="
             /\ result.errors[k][2] = inv[k]
             /\ result.errors[k][3] = ": "
             /\ result.errors[k][4] = FirstViolation(model, records[inv[k] + 1])
        /\ \A k \in 1..(Len(result.errors) - 1) :
             result.errors[k][2] < result.errors[k + 1][2]

C9_Witness ==
  /\ vpc = "done"
  /\ result.invalid_rows > 25
  /\ Len(result.errors) = 25
  /\ result.valid_rows > 0
  /\ result.errors[1][4] # result.errors[2][4]
  /\ Len(model_validate(model, records[result.errors[1][2] + 1])) = 2

(* What C10 declares a valid telemetry row: the required fields present    *)
(* and coercible, driver_code non-empty, lap_number a positive whole       *)
(* number, lap_distance_m and speed_kph >= 0, source_type one of the enum. *)
IsNumber(v) == v.t \in {"int", "float"} \/ (v.t = "str" /\ v.s \in FloatStrings)
Tenths(v) ==
  CASE v.t = "int" -> 10 * v.n
    [] v.t = "float" -> v.n
    [] v.s = "7" -> 70
    [] OTHER -> 125
DeclaredValid(row) ==
  /\ row["source_type"].t = "missing"
       \/ (row["source_type"].t = "str" /\ row["source_type"].s \in DataSourceType)
  /\ row["session_id"].t = "str"
  /\ row["driver_code"].t = "str" /\ row["driver_code"].s # ""
  /\ IsNumber(row["lap_number"])
  /\ Tenths(row["lap_number"]) % 10 = 0
  /\ Tenths(row["lap_number"]) > 0
  /\ IsNumber(row["lap_distance_m"]) /\ Tenths(row["lap_distance_m"]) >= 0
  /\ IsNumber(row["speed_kph"]) /\ Tenths(row["speed_kph"]) >= 0
  /\ IsNumber(row["throttle_pct"])
  /\ IsNumber(row["brake_pct"])

OptionalsNull(row) ==
  \A f \in {"gear", "rpm", "timestamp_utc"} : row[f].t \in {"none", "missing"}

(* C10: a telemetry row is counted valid if and only if all required       *)
(* fields are present and satisfy the declared constraints (driver_code    *)
(* non-empty, lap_number a positive whole number, lap_distance_m and       *)
(* speed_kph >= 0, source_type in the enum); stated for rows whose         *)
(* optional fields are absent or None.                                     *)
C10_ValidIffDeclared ==
  model = "TelemetryRecord" =>
    \A i \in 1..Len(verdicts) :
      OptionalsNull(records[i]) => (verdicts[i] <=> DeclaredValid(records[i]))

(* ---- normalization and upload pipeline claims ----                      *)

Validated == ppc \in {"validating", "returned"}
OptionalFields == {"gear", "rpm", "timestamp_utc"}
RequiredValid(row) ==
  \A j \in 1..Len(TelemetryRecord) :
    TelemetryRecord[j].name \notin OptionalFields =>
      FieldError(TelemetryRecord[j], row[TelemetryRecord[j].name]) = ""

(* C11: in the upload pipeline (normalize_user_telemetry, then             *)
(* validate_user_telemetry) a row whose required fields are all valid is   *)
(* counted valid even when the upload has no gear, rpm or timestamp_utc    *)
(* column or has nulls in them.                                            *)
C11_OptionalsMayBeAbsent ==
  (kind = "user" /\ Validated) =>
    \A i \in 1..Len(verdicts) : RequiredValid(records[i]) => verdicts[i]

NormalizeLeft ==
  ppc \in {"raised", "normalized", "validating", "returned", "compared", "page_raised"}
NormalizeReturned ==
  ppc \in {"normalized", "validating", "returned", "compared", "page_raised"}
SchemaColumns == IF kind = "user" THEN USER_SCHEMA_COLUMNS ELSE OPEN_SCHEMA_COLUMNS
ColumnList(df) == [j \in 1..Len(df.cols) |-> df.cols[j].name]

(* C12: for every raw table the table returned by                          *)
(* normalize_user_telemetry (normalize_open_historical) has exactly the    *)
(* columns of USER_SCHEMA_COLUMNS (OPEN_SCHEMA_COLUMNS), each once and in  *)
(* that order, also when several raw columns map to one canonical name.    *)
C12_CanonicalColumns ==
  NormalizeLeft => (NormalizeReturned /\ ColumnList(normalized) = SchemaColumns)

IsNull(v) == v.t \in {"none", "nan"}
Coerced(in, out) ==
  IF IsNumber(in) THEN out.t \in {"int", "float"} /\ Tenths(out) = Tenths(in)
  ELSE out.t = "nan"
Synonyms == IF kind = "user" THEN USER_SYNONYMS ELSE OPEN_SYNONYMS
NumericCols == IF kind = "user" THEN UserNumericCols ELSE OpenNumericCols
SourcesOf(c) ==
  {j \in 1..Len(raw.cols) : rename_with_synonyms(raw, Synonyms).cols[j].name = c}

(* C13: numeric coercion never raises: for every raw table each declared   *)
(* numeric canonical column of the output holds, per row, the number       *)
(* parsed from the input cell or null when the cell is missing or          *)
(* unparsable, and no input (two raw columns renamed to one numeric        *)
(* canonical name included) makes the normalizers raise.                   *)
C13_CoercionNeverRaises ==
  NormalizeLeft =>
    /\ NormalizeReturned
    /\ \A k \in 1..Len(NumericCols) :
         \A o \in 1..Len(normalized.cols) :
           normalized.cols[o].name = NumericCols[k] =>
             \A i \in 1..raw.n :
               /\ \A j \in SourcesOf(NumericCols[k]) :
                    Coerced(raw.cols[j].cells[i], normalized.cols[o].cells[i])
               /\ SourcesOf(NumericCols[k]) = {} => normalized.cols[o].cells[i].t = "nan"

RawNames(c) ==
  CASE c = "lap_number" -> {"lap_number", "lap", "Lap", " LAP "}
    [] c = "lap_duration_s" -> {"lap_duration_s", "lap_duration"}
    [] OTHER -> {c}
RawColumn(name) == raw.cols[CHOOSE j \in 1..Len(raw.cols) : raw.cols[j].name = name]
OutColumn(name) ==
  normalized.cols[CHOOSE j \in 1..Len(normalized.cols) : normalized.cols[j].name = name]

(* C14: synonym matching is case-insensitive and whitespace-trimmed: with  *)
(* a raw column "Lap" (or " LAP ") and no "lap_number" column, the         *)
(* output's lap_number column holds the input column's values row for row, *)
(* numeric-coerced; a canonical column with no matching raw column is      *)
(* created and filled with null for every row.  Stated for the calls that  *)
(* return a table.                                                         *)
C14_SynonymsTrimmedLowercased ==
  NormalizeReturned =>
    /\ \A nm \in {"Lap", " LAP "} :
         (nm \in ColumnNames(raw) /\ "lap_number" \notin ColumnNames(raw)) =>
           /\ Len(ColumnsNamed(normalized, "lap_number")) = 1
           /\ \A i \in 1..raw.n :
                Coerced(RawColumn(nm).cells[i], OutColumn("lap_number").cells[i])
    /\ \A c \in {"lap_number", "gear", "rpm", "timestamp_utc", "lap_duration_s",
                 "sector_1_s"} :
         (c \in ColumnNames(normalized) /\ RawNames(c) \cap ColumnNames(raw) = {}) =>
           /\ Len(OutColumn(c).cells) = raw.n
           /\ \A i \in 1..raw.n : IsNull(OutColumn(c).cells[i])

C14_Witness ==
  /\ ppc = "normalized"
  /\ kind = "user"
  /\ " LAP " \in ColumnNames(raw)
  /\ "lap_number" \notin ColumnNames(raw)
  /\ "gear" \notin ColumnNames(raw)
  /\ raw.n = 2
  /\ RawColumn(" LAP ").cells = <<StrVal("abc"), StrVal("12.5")>>
  /\ OutColumn("lap_number").cells = <<NanVal, FloatVal(125)>>
  /\ OutColumn("gear").cells = <<NanVal, NanVal>>

(* C15: every row of the output of normalize_user_telemetry has            *)
(* source_type = user_upload and session_id equal to the caller-supplied   *)
(* session_id, and every row of the output of normalize_open_historical    *)
(* has source_type = open_historical, whatever the raw table carried.      *)
C15_StampOverrides ==
  NormalizeReturned =>
    \A i \in 1..raw.n :
      /\ \A j \in 1..Len(normalized.cols) :
           /\ normalized.cols[j].name = "source_type" =>
                normalized.cols[j].cells[i] =
                  StrVal(IF kind = "user" THEN "user_upload" ELSE "open_historical")
           /\ (kind = "user" /\ normalized.cols[j].name = "session_id") =>
                normalized.cols[j].cells[i] = StrVal(session_id)
      /\ "source_type" \in ColumnNames(normalized)
      /\ kind = "user" => "session_id" \in ColumnNames(normalized)

C15_Witness ==
  /\ ppc = "normalized"
  /\ kind = "user"
  /\ raw.n = 2
  /\ "session_id" \in ColumnNames(raw)
  /\ RawColumn("session_id").cells[2] = StrVal("other-session")
  /\ RawColumn("source_type").cells[1] = StrVal("open_historical")
  /\ OutColumn("session_id").cells[2] = StrVal("user-session-001")
  /\ OutColumn("source_type").cells[1] = StrVal("user_upload")

(* ---- binning and comparison claims ----                                 *)

Binned == bpc \in {"binned", "compared"}
Distance(i) == CellOf(bdf, "lap_distance_m", i)
HasDistance(i) == Distance(i).t \in {"int", "float"}
SameDriverLap(i, j) ==
  /\ CellOf(bdf, "driver_code", i) = CellOf(bdf, "driver_code", j)
  /\ CellOf(bdf, "lap_number", i) = CellOf(bdf, "lap_number", j)

(* C16: telemetry_bin_average assigns bin_index = floor(lap_distance_m /   *)
(* bin_size_m) for every bin size > 0 and non-null distance, so within a   *)
(* fixed driver and lap bin_index is monotonically non-decreasing in       *)
(* distance; distances 10 and 60 with bin size 50 get bin_index 0 and 1    *)
(* and form two separate groups.                                           *)
C16_BinIndexIsFloor ==
  Binned =>
    /\ \A i \in 1..bdf.n :
         HasDistance(i) =>
           /\ out_bins[i].t = "int"
           /\ bin_size_m * out_bins[i].n <= NumberOf(Distance(i))
           /\ NumberOf(Distance(i)) < bin_size_m * (out_bins[i].n + 1)
    /\ \A i, j \in 1..bdf.n :
         (/\ HasDistance(i) /\ HasDistance(j) /\ SameDriverLap(i, j)
          /\ NumberOf(Distance(i)) <= NumberOf(Distance(j)))
           => out_bins[i].n <= out_bins[j].n
    /\ \A i, j \in 1..bdf.n :
         (/\ bin_size_m = 500 /\ SameDriverLap(i, j)
          /\ CellOf(bdf, "driver_code", i).t = "str"
          /\ CellOf(bdf, "lap_number", i).t \in {"int", "float"}
          /\ Distance(i) = FloatVal(100) /\ Distance(j) = FloatVal(600))
           => /\ out_bins[i] = IntVal(0)
              /\ out_bins[j] = IntVal(1)
              /\ \E g, h \in 1..Len(binned) :
                   /\ g # h
                   /\ binned[g].driver_code = CellOf(bdf, "driver_code", i).s
                   /\ binned[h].driver_code = CellOf(bdf, "driver_code", i).s
                   /\ binned[g].bin_index = 0
                   /\ binned[h].bin_index = 1

C16_Witness ==
  /\ bpc = "binned"
  /\ bin_size_m = 500
  /\ bdf.n = 2
  /\ CellOf(bdf, "driver_code", 1) = StrVal("VER")
  /\ SameDriverLap(1, 2)
  /\ Distance(1) = FloatVal(100)
  /\ Distance(2) = FloatVal(600)
  /\ out_bins = <<IntVal(0), IntVal(1)>>
  /\ Len(binned) = 2

TripleOf(i) ==
  <<CellOf(bdf, "driver_code", i).s, NumberOf(CellOf(bdf, "lap_number", i)),
    NumberOf(Distance(i)) \div bin_size_m>>
FullRows ==
  {i \in 1..bdf.n : /\ NotNull(CellOf(bdf, "driver_code", i))
                    /\ NotNull(CellOf(bdf, "lap_number", i))
                    /\ NotNull(Distance(i))}
RECURSIVE SumCells(_, _)
SumCells(name, S) ==
  IF S = {} THEN 0
  ELSE LET i == CHOOSE x \in S : TRUE
       IN  NumberOf(CellOf(bdf, name, i)) + SumCells(name, S \ {i})
IsMeanOf(m, name, S) ==
  LET present == {i \in S : NotNull(CellOf(bdf, name, i))}
  IN  m.n = Cardinality(present) /\ m.sum = SumCells(name, present)

(* C17: the output of telemetry_bin_average has exactly one row for each   *)
(* distinct (driver_code, lap_number, bin_index) triple that occurs with   *)
(* all three keys non-null in the input, and no other row; its speed_kph,  *)
(* throttle_pct and brake_pct are the arithmetic means (of the non-null    *)
(* values) of the input rows with that triple.  Rows with a null           *)
(* driver_code, lap_number or lap_distance_m contribute to no output row.  *)
C17_OneRowPerTriple ==
  Binned =>
    /\ {<<binned[g].driver_code, binned[g].lap_number, binned[g].bin_index>> :
          g \in 1..Len(binned)} = {TripleOf(i) : i \in FullRows}
    /\ Len(binned) = Cardinality({TripleOf(i) : i \in FullRows})
    /\ \A g \in 1..Len(binned) :
         LET S == {i \in FullRows :
                     TripleOf(i) = <<binned[g].driver_code, binned[g].lap_number,
                                     binned[g].bin_index>>}
         IN  /\ IsMeanOf(binned[g].speed_kph, "speed_kph", S)
             /\ IsMeanOf(binned[g].throttle_pct, "throttle_pct", S)
             /\ IsMeanOf(binned[g].brake_pct, "brake_pct", S)

C17_Witness ==
  /\ bpc = "binned"
  /\ bin_size_m = 500
  /\ bdf.n = 4
  /\ Distance(1) = FloatVal(100) /\ CellOf(bdf, "driver_code", 1) = StrVal("VER")
  /\ Distance(2) = FloatVal(400) /\ CellOf(bdf, "driver_code", 2) = StrVal("VER")
  /\ Distance(3) = FloatVal(600) /\ CellOf(bdf, "driver_code", 3) = StrVal("VER")
  /\ CellOf(bdf, "driver_code", 4) = NoneVal
  /\ Len(binned) = 2
  /\ binned[1].speed_kph = [sum |-> 5800, n |-> 2]
  /\ binned[1].throttle_pct = [sum |-> 1500, n |-> 2]

(* C18: every bin_index in the output of telemetry_bin_average is a        *)
(* non-negative integer, for every normalized telemetry table the pipeline *)
(* can pass to it.                                                         *)
C18_BinIndexNonNegative ==
  (ppc = "compared" /\ bpc = "compared") =>
    \A g \in 1..Len(binned) : binned[g].bin_index >= 0

PairsOf(s) == {<<s[g].lap_number, s[g].bin_index>> : g \in 1..Len(s)}
HasRows(d) == \E i \in 1..bdf.n : CellOf(bdf, "driver_code", i) = StrVal(d)
Compared == bpc \in {"compared", "raised"} /\ driver_a # ""

(* C19: the (lap_number, bin_index) pairs in the result of                 *)
(* compare_two_drivers(df, a, b) are exactly the intersection of the pairs *)
(* of driver a's binned rows and of driver b's binned rows; if either      *)
(* driver code has no rows the result is empty rather than an error.       *)
C19_InnerJoin ==
  Compared =>
    /\ bpc = "compared"
    /\ PairsOf(merged) = PairsOf(DriverRows(binned, driver_a))
                           \cap PairsOf(DriverRows(binned, driver_b))
    /\ (~HasRows(driver_a) \/ ~HasRows(driver_b)) => merged = <<>>

C19_Witness ==
  /\ bpc = "compared"
  /\ driver_a = "VER"
  /\ driver_b = "HAM"
  /\ Len(merged) = 1
  /\ merged[1].bin_index = 0
  /\ <<10, 1>> \in PairsOf(DriverRows(binned, "VER"))
  /\ <<10, 1>> \notin PairsOf(DriverRows(binned, "HAM"))

(* ---- fuel model claims ----                                             *)

Estimated == fpc = "done"
AtMost(x, y) == x = y \/ Below(x, y)
(* 2^-46, the spacing of binary64 numbers between 64 and 128.              *)
UlpOfStart == [k \in 1..GridLen |-> IF k = IntBits + 46 THEN 1 ELSE 0]
FuelBounded ==
  /\ ~fuel_mass.neg
  /\ AtMost(fuel_mass.digits, FromInt(DEFAULT_START_FUEL_KG))
  /\ lap_number > 0 => (~fuel_prev.neg /\ AtMost(fuel_mass.digits, fuel_prev.digits))
  /\ (total_laps >= 1 /\ lap_number > total_laps) => fuel_mass = Zero

(* What the code returns at lap_number = total_laps: 0, or 2^-46 where     *)
(* (100 / total_laps) * total_laps rounds to the number below 100.         *)
FuelAtFinalLap ==
  (Estimated /\ total_laps >= 1 /\ lap_number = total_laps) =>
    fuel_mass \in {Zero, [neg |-> FALSE, digits |-> UlpOfStart]}

(* C20: for every total_laps and lap numbers >= 0 the result of            *)
(* estimate_fuel_mass is non-increasing in lap_number, never negative,     *)
(* never above the 100 kg starting mass, and exactly 0 at lap_number =     *)
(* total_laps (and beyond) when total_laps >= 1.                           *)
C20_FuelReachesZero ==
  Estimated =>
    /\ FuelBounded
    /\ (total_laps >= 1 /\ lap_number = total_laps) => fuel_mass = Zero

(* ---- noise-free race time ----                                          *)

(* The tire age of lap l: laps since the pit stop if one has fired by lap  *)
(* l, else laps since the start.                                           *)
TireAgeAt(l, a) ==
  IF a.pit_lap >= 1 /\ a.pit_lap <= l THEN l - a.pit_lap ELSE l - 1

RECURSIVE AgeSum(_, _)
AgeSum(l, a) == IF l <= 0 THEN 0 ELSE TireAgeAt(l, a) + AgeSum(l - 1, a)

ExpectedTotal(a) ==
  a.laps * a.base_lap_s + a.deg_per_lap_s * AgeSum(a.laps, a)
    + (IF a.pit_lap >= 1 /\ a.pit_lap <= a.laps THEN a.pit_loss_s ELSE 0)

(* C24: with noise_std_s = 0 every run's race_time_s equals                *)
(* laps*base_lap_s + deg_per_lap_s * (sum over laps of that lap's          *)
(* tire_age) + pit_loss_s counted once if 1 <= pit_lap <= laps and zero    *)
(* times otherwise, rounded to 3 decimals; the race time is the cumulative *)
(* time after exactly `laps` lap transitions and all runs of the call are  *)
(* equal.                                                                  *)
C24_NoiseFreeRaceTime ==
  args.noise_std_s = 0 =>
    /\ \A i \in 1..Len(rows) : rows[i].race_time_s = ExpectedTotal(args)
    /\ \A i \in 1..Len(frame) : frame[i].race_time_s = Round3(ExpectedTotal(args))
    /\ (pc = "inner" /\ lap > args.laps) =>
         (Len(ages) = args.laps /\ total = ExpectedTotal(args))
    /\ pc \in {"inner", "laptime"} => Len(ages) = lap - 1

C24_Witness ==
  /\ pc = "returned"
  /\ args.noise_std_s = 0
  /\ args.laps = 3
  /\ args.pit_lap = 2
  /\ args.deg_per_lap_s = 600
  /\ Len(frame) = 2
  /\ frame[1].race_time_s = 291560
  /\ frame[2].race_time_s = 291560

(* ---- comparison symmetry ----                                           *)

PairOf(r) == <<r.lap_number, r.bin_index>>
IsNan(x) == x.den = 0
Negated(x, y) ==
  IF IsNan(x) THEN IsNan(y)
  ELSE ~IsNan(y) /\ x.num * y.den = -(y.num * x.den)
MeanDifference(x, y) ==
  [num |-> x.sum * y.n - y.sum * x.n, den |-> x.n * y.n]
Swapped == compare_two_drivers(bdf, driver_b, driver_a).merged

(* C28: the result of compare_two_drivers has at most one row per          *)
(* (lap_number, bin_index) pair; swapping the two driver arguments yields  *)
(* the same set of pairs with speed_delta_kph negated on every pair, and   *)
(* speed_delta_kph is driver a's bin mean speed minus driver b's.          *)
C28_UniquePairsAntisymmetric ==
  (bpc = "compared" /\ driver_a # "") =>
    /\ \A g, h \in 1..Len(merged) : PairOf(merged[g]) = PairOf(merged[h]) => g = h
    /\ {PairOf(Swapped[h]) : h \in 1..Len(Swapped)}
         = {PairOf(merged[g]) : g \in 1..Len(merged)}
    /\ \A g \in 1..Len(merged) :
         /\ \A h \in 1..Len(Swapped) :
              PairOf(Swapped[h]) = PairOf(merged[g]) =>
                Negated(merged[g].speed_delta_kph, Swapped[h].speed_delta_kph)
         /\ \E x, y \in 1..Len(binned) :
              /\ binned[x].driver_code = driver_a /\ PairOf(binned[x]) = PairOf(merged[g])
              /\ binned[y].driver_code = driver_b /\ PairOf(binned[y]) = PairOf(merged[g])
              /\ merged[g].speed_delta_kph =
                   MeanDifference(binned[x].speed_kph, binned[y].speed_kph)

C28_Witness ==
  /\ bpc = "compared"
  /\ driver_a = "VER"
  /\ driver_b = "HAM"
  /\ bdf.n = 2
  /\ Len(merged) = 1
  /\ merged[1].speed_delta_kph = [num |-> 50, den |-> 1]
  /\ Swapped[1].speed_delta_kph = [num |-> -50, den |-> 1]

(* ---- lap_delta claims ----                                              *)

NonDecreasing(s) ==
  \A a, b \in 1..Len(s) : a <= b => OrZero(s[a]) <= OrZero(s[b])
DeltaDone == dpc \in {"returned", "index_error"}
ComparisonUsable == Len(cmp_dist) >= 1 /\ Len(cmp_cum) = Len(cmp_dist)
EmptyComparison == cmp_dist = <<>> /\ cmp_cum = <<>> /\ ref_dist # <<>>
(* The comparison sample at 0-based index q.                               *)
CmpAt(q) == OrZero(cmp_dist[q + 1])

DeltaShape ==
  /\ dpc = "returned" => (Len(ld_x) = Len(ref_dist) /\ Len(ld_y) = Len(ref_dist))
  /\ \A a, b \in 1..Len(ld_js) : a <= b => ld_js[a] <= ld_js[b]
  /\ \A a \in 1..Len(ld_js) : ld_js[a] <= ld_j
  /\ ComparisonUsable => ld_j \in 0..(Len(cmp_dist) - 1)
  /\ EmptyComparison => dpc # "returned"

DeltaEnds ==
  /\ (dpc = "scan") ~> DeltaDone
  /\ (dpc = "scan" /\ EmptyComparison) ~> (dpc = "index_error")

(* C30 as stated: lap_delta terminates and returns two lists each of       *)
(* length len(ref_dist); j only ever increases and, for non-empty          *)
(* cmp_dist and cmp_cum of equal length, stays within 0..len(cmp_dist)-1,  *)
(* pointing after reference sample d at the last comparison sample before  *)
(* the first one whose distance is >= d (for non-decreasing distances);    *)
(* with an empty comparison lap and a non-empty reference it fails with an *)
(* index error.                                                            *)
C30_Original ==
  /\ [](/\ DeltaShape
        /\ (ComparisonUsable /\ NonDecreasing(ref_dist) /\ NonDecreasing(cmp_dist)) =>
             \A k \in 1..Len(ld_js) :
               (\E q \in 0..(Len(cmp_dist) - 1) : CmpAt(q) >= OrZero(ref_dist[k])) =>
                 /\ ld_js[k] + 1 < Len(cmp_dist)
                 /\ CmpAt(ld_js[k] + 1) >= OrZero(ref_dist[k])
                 /\ \A q \in 0..ld_js[k] : CmpAt(q) < OrZero(ref_dist[k]))
  /\ DeltaEnds

(* C30, amended: as stated, except that the sample at index 0 is never     *)
(* tested: after reference sample d, j is the last index such that every   *)
(* comparison sample at indices 1..j lies before d, so j = 0 also when     *)
(* cmp_dist[0] >= d, and j = len(cmp_dist)-1 when no later sample reaches  *)
(* d.  The lengths are those of a call that returns.                       *)
C30_Amended ==
  /\ [](/\ DeltaShape
        /\ (ComparisonUsable /\ NonDecreasing(ref_dist) /\ NonDecreasing(cmp_dist)) =>
             \A k \in 1..Len(ld_js) :
               /\ \A q \in 1..ld_js[k] : CmpAt(q) < OrZero(ref_dist[k])
               /\ ld_js[k] + 1 < Len(cmp_dist) =>
                    CmpAt(ld_js[k] + 1) >= OrZero(ref_dist[k]))
  /\ DeltaEnds

C30_Witness ==
  /\ dpc = "returned"
  /\ ref_dist = <<NoneVal, FloatVal(20)>>
  /\ cmp_dist = <<NoneVal, FloatVal(10), FloatVal(20)>>
  /\ Len(cmp_cum) = 3
  /\ ld_js = <<0, 1>>
  /\ ld_x = <<0, 20>>
  /\ ld_y = <<10, 20>>

(* ---- fuel-corrected pace claims ----                                    *)

PaceLeft == pace_pc \notin {"idle", "start"}
HasLapTimes == "lap_duration_s" \in ColumnNames(laps_df)
OutCell(name, i) == CellOf(modeled, name, i)
LapTimeCell(i) == CellOf(laps_df, "lap_duration_s", i)
IsNumeric(v) == v.t \in {"int", "float"}

(* C21: fuel_corrected_pace raises a value error whenever the input table  *)
(* lacks the lap-time column, e.g. for a table with only a lap_number      *)
(* column; the error is raised before any result column is computed and    *)
(* the caller's table is left unchanged.                                   *)
C21_MissingLapTimeRaises ==
  /\ []((PaceLeft /\ ~HasLapTimes) =>
          /\ pace_pc = "ValueError: Missing required column"
          /\ modeled = EmptyTable
          /\ ColumnNames(laps_df) \cap {"fuel_mass_kg", "fuel_effect_s",
                                        "fuel_corrected_lap_s", "degradation_trend_s"} = {})
  /\ [][~HasLapTimes => laps_df' = laps_df]_vars

C21_Witness ==
  /\ pace_pc = "ValueError: Missing required column"
  /\ ColumnNames(laps_df) = {"lap_number"}
  /\ laps_df.n = 3
  /\ modeled = EmptyTable

(* C22: called on a table that has the lap-time column but no lap_number   *)
(* column (total_laps is then the row count), or whose lap_number values   *)
(* are all null, fuel_corrected_pace completes and returns the pace table  *)
(* instead of raising.                                                     *)
C22_TotalLapsInferred ==
  (/\ PaceLeft
   /\ HasLapTimes
   /\ \/ "lap_number" \notin ColumnNames(laps_df)
      \/ \A i \in 1..laps_df.n : ~IsNumeric(CellOf(laps_df, "lap_number", i)))
    => /\ pace_pc = "returned"
       /\ modeled.n = laps_df.n

(* C23: in the output of fuel_corrected_pace, fuel_corrected_lap_s of each *)
(* row equals its lap time minus 0.03 times its estimated fuel mass, and   *)
(* degradation_trend_s at row i is the mean of the non-null                *)
(* fuel_corrected_lap_s values among rows max(0, i-4)..i in table order    *)
(* when at least 2 of them are non-null, and null otherwise; the first     *)
(* row's trend is null and the window is not restarted per driver.         *)
C23_CorrectedPaceAndTrend ==
  pace_pc = "returned" =>
    /\ modeled.n = laps_df.n
    /\ \A i \in 1..modeled.n :
         LET first == IF i - 4 >= 1 THEN i - 4 ELSE 1
             valid == {k \in first..i : IsNumeric(OutCell("fuel_corrected_lap_s", k))}
             trend == OutCell("degradation_trend_s", i)
         IN  /\ IF IsNumeric(LapTimeCell(i))
                  THEN OutCell("fuel_corrected_lap_s", i).n =
                         10000 * NumberOf(LapTimeCell(i)) - 3 * OutCell("fuel_mass_kg", i).n
                  ELSE OutCell("fuel_corrected_lap_s", i) = NanVal
             /\ IF Cardinality(valid) >= 2
                  THEN /\ trend.t = "float"
                       /\ trend.of = Cardinality(valid)
                       /\ trend.n = SumSeq([k \in 1..i |->
                                      IF k \in valid THEN OutCell("fuel_corrected_lap_s", k).n
                                      ELSE 0])
                  ELSE trend = NanVal
             /\ i = 1 => trend = NanVal

C23_Witness ==
  /\ pace_pc = "returned"
  /\ modeled.n = 6
  /\ "driver_number" \in ColumnNames(laps_df)
  /\ \A i \in 1..6 : IsNumeric(LapTimeCell(i))
  /\ OutCell("fuel_mass_kg", 1).n = 66666
  /\ OutCell("fuel_corrected_lap_s", 1).n = 9010000 - 199998
  /\ OutCell("degradation_trend_s", 1) = NanVal
  /\ OutCell("degradation_trend_s", 4).of = 4
  /\ OutCell("degradation_trend_s", 6).of = 5

(* ---- no transformation writes to its input ----                         *)

(* C25: the core transformations never mutate their input: after           *)
(* normalize_user_telemetry, normalize_open_historical,                    *)
(* telemetry_bin_average, compare_two_drivers or fuel_corrected_pace       *)
(* returns or raises, the caller's input table has the same columns and    *)
(* the same cell values as before the call.                                *)
C25_InputsNeverMutated ==
  [][/\ (ppc = "start" /\ ppc' # "start") => raw' = raw
     /\ (bpc = "start" /\ bpc' # "start") => bdf' = bdf
     /\ (ppc = "returned" /\ ppc' = "compared") =>
          (bdf' = normalized /\ normalized' = normalized)
     /\ (pace_pc = "start" /\ pace_pc' # "start") => laps_df' = laps_df]_vars

C25_Witness ==
  /\ pace_pc = "returned"
  /\ laps_df.n = 3
  /\ ColumnNames(laps_df) = {"lap_number", "lap_duration_s"}
  /\ ColumnNames(modeled) = {"lap_number", "lap_duration_s", "fuel_mass_kg", "fuel_effect_s",
                             "fuel_corrected_lap_s", "degradation_trend_s"}

(* ---- the loaders' step order and the upload page's gates ----           *)

IsPrefix(s, t) == Len(s) <= Len(t) /\ \A i \in 1..Len(s) : s[i] = t[i]

(* C26: in load_open_historical_laps the steps run strictly in the order   *)
(* fetch, normalize, validate; when the fetch fails (non-2xx response or   *)
(* network error) the exception propagates and neither normalization nor   *)
(* validation is executed; load_uploaded_table raises a value error for a  *)
(* file suffix other than csv/parquet before any normalization or          *)
(* validation runs.                                                        *)
C26_FetchNormalizeValidateInOrder ==
  /\ IsPrefix(steps, IF kind = "open" THEN <<"fetch", "normalize", "validate">>
                     ELSE <<"read", "normalize", "validate">>)
  /\ (kind = "open" /\ response # "ok" /\ ppc # "called") =>
       /\ ppc = "fetch_raised"
       /\ steps = <<"fetch">>
       /\ normalized = EmptyTable
       /\ vpc = "idle" /\ records = <<>>
  /\ (kind = "user" /\ uploaded = "laps.txt" /\ ppc \notin {"page", "page_idle", "called"}) =>
       /\ ppc = "value_error"
       /\ steps = <<>>
       /\ normalized = EmptyTable
       /\ vpc = "idle" /\ records = <<>>

C26_Witness ==
  /\ kind = "open"
  /\ response = "http_error"
  /\ ppc = "fetch_raised"
  /\ steps = <<"fetch">>

(* C27: the upload page never calls compare_two_drivers unless the         *)
(* normalized table holds at least two distinct non-empty driver codes and *)
(* the two selected drivers differ; and it never loads or analyses an      *)
(* uploaded file unless the attestation box is checked.                    *)
C27_PageGates ==
  /\ (kind = "user" /\ ppc \notin {"idle", "page", "page_idle"}) =>
       (attested /\ uploaded # NoFile)
  /\ (kind = "user" /\ ~attested) =>
       /\ steps = <<>>
       /\ raw = EmptyTable /\ normalized = EmptyTable
       /\ vpc = "idle" /\ bpc = "idle"
  /\ (kind = "user" /\ bpc # "idle") =>
       /\ Cardinality(valid_driver_values(normalized)) >= 2
       /\ driver_a # driver_b
       /\ {driver_a, driver_b} \subseteq valid_driver_values(normalized)
       /\ bdf = normalized

C27_Witness ==
  /\ ppc = "compared"
  /\ attested
  /\ uploaded = "laps.csv"
  /\ Cardinality(valid_driver_values(normalized)) = 2
  /\ driver_a # driver_b
  /\ steps = <<"read", "normalize", "validate">>

(* ---- the Strategy Simulator page ----                                   *)

(* C29: every simulation started from the Strategy Simulator page fires    *)
(* the pit event exactly once per run: for all slider values (laps in      *)
(* 20..90, pit lap in 2..89) the page passes pit_lap = min(pit_lap,        *)
(* laps - 1), which always lies in 2..laps-1, so a run in which the pit    *)
(* never fires is unreachable from the page.                               *)
C29_PagePitFiresOnce ==
  /\ pc = "idle" =>
       \A l \in LapsMin..LapsMax, p \in PitLapMin..PitLapMax :
         /\ PagePitLap(p, l) \in 2..(l - 1)
         /\ PagePitLap(p, l) = MinOf(p, l - 1)
  /\ pc # "idle" =>
       /\ args.laps = sliders.laps
       /\ args.pit_lap = MinOf(sliders.pit_lap, sliders.laps - 1)
       /\ args.pit_lap \in 2..(args.laps - 1)
       /\ InRun => pits = (IF lap > args.pit_lap \/ (lap = args.pit_lap /\ pc = "laptime")
                             THEN 1 ELSE 0)
       /\ RunEnded => pits = 1

C29_Witness ==
  /\ sliders.laps = LapsMin
  /\ sliders.pit_lap = PitLapMax
  /\ args.pit_lap = LapsMin - 1
  /\ pc = "outer"
  /\ run_id = 2
  /\ pits = 1
  /\ Len(ages) = LapsMin
  /\ ages[LapsMin] = 1

=============================================================================
